---- MODULE Spec2Model ----
(***************************************************************************)
(* Model of terraform-provider-devgraph: the provider's Configure and the  *)
(* lifecycle handlers (Create, Read, Update, Delete) of its seven          *)
(* resources.  One behaviour follows one managed resource instance of one  *)
(* resource type: the provider is configured, the resource receives the    *)
(* client handle, and lifecycle handlers run one after the other.  The     *)
(* remote API is the environment: what it answers to a call is chosen      *)
(* nondeterministically.  Every handler is an operator from its inputs     *)
(* (plan, prior state, the answer the remote call would get) to its        *)
(* outcome (request sent, number of remote calls, error diagnostics, what  *)
(* it did to the state).                                                   *)
(***************************************************************************)
EXTENDS Naturals, Sequences, FiniteSets

VARIABLES
    config,     \* the provider block (DevgraphProviderModel)
    osEnv,      \* the process environment variables read by os.Getenv
    provider,   \* outcome of DevgraphProvider.Configure
    client,     \* the resource's r.client
    pc,         \* "start" -> "provider_configured" -> "ready"
    kind,       \* resource type of the managed instance
    tfstate,    \* persisted Terraform state of the instance, or NoState
    op,         \* the last lifecycle handler that ran
    plan,       \* the plan handed to it (NoPlan when it takes none), or the
                \* import request handed to ImportState
    prior,      \* the prior state handed to it
    req,        \* the request it sent to the remote API (NoReq when none)
    resp,       \* the remote API's answer (NoResp when no call was made)
    calls,      \* number of remote calls it made
    header,     \* HTTP header of the request that left (NoHeader when none)
    diags,      \* summaries of the error diagnostics it recorded
    wrote,      \* "set", "removed" or "none": what it did to resp.State
    nOps        \* create/read/update/delete handlers run so far

vars == <<config, osEnv, provider, client, pc, kind, tfstate, op, plan, prior,
          req, resp, calls, header, diags, wrote, nOps>>

(***************************************************************************)
(* Bounds of the model.                                                    *)
(***************************************************************************)
\* create, read, update and delete handlers run on one instance in one
\* behaviour (an import only seeds the state and is not counted)
MaxOps == 2
\* entries of a list or map attribute, and of a list response
MaxLen == 2

(***************************************************************************)
(* terraform-plugin-framework attribute values: null, unknown or known.    *)
(***************************************************************************)
Null == [k |-> "null"]
Unknown == [k |-> "unknown"]
StringValue(s) == [k |-> "value", v |-> s]
BoolValue(b) == [k |-> "value", v |-> b]
Int64Value(n) == [k |-> "value", v |-> n]
ListValueMust(l) == [k |-> "value", v |-> l]
MapValueMust(m) == [k |-> "value", v |-> m]
StringNull == Null

IsNull(x) == x.k = "null"
IsUnknown(x) == x.k = "unknown"
ValueString(x) == IF x.k = "value" THEN x.v ELSE ""
ValueBool(x) == IF x.k = "value" THEN x.v ELSE FALSE
ValueInt64(x) == IF x.k = "value" THEN x.v ELSE 0
\* ElementsAs into a Go slice or map: the elements of a known value
ElementsAsList(x) == IF x.k = "value" THEN x.v ELSE <<>>
ElementsAsMap(x) == IF x.k = "value" THEN x.v ELSE {}
Equal(a, b) == a = b

(***************************************************************************)
(* The generated client's optional types.  A request or response field is  *)
(* omitted (Set = FALSE), explicit null (Set, Null) or a value.            *)
(***************************************************************************)
Opt(zero) == [Set |-> FALSE, Value |-> zero]
NewOpt(v) == [Set |-> TRUE, Value |-> v]
OptNil(zero) == [Set |-> FALSE, Null |-> FALSE, Value |-> zero]
NewOptNil(v) == [Set |-> TRUE, Null |-> FALSE, Value |-> v]
OptNilNull(zero) == [Set |-> TRUE, Null |-> TRUE, Value |-> zero]

NewOptBool(v) == NewOpt(v)
NewOptInt(v) == NewOpt(v)
NewOptNilString(v) == NewOptNil(v)
NewOptNilBool(v) == NewOptNil(v)
NewOptNilInt(v) == NewOptNil(v)
NewOptNilUUID(v) == NewOptNil(v)
NewOptNilURI(v) == NewOptNil(v)
NewOptNilStringArray(v) == NewOptNil(v)

(***************************************************************************)
(* Parsers of strings that encode structured data.                         *)
(***************************************************************************)
\* uuid.Parse.  "uuid-1" and "uuid-2" stand for two UUIDs in canonical text
\* form, "UUID-1" for the upper-case spelling of the first (accepted, and
\* printed back in canonical form by UUID.String()); "uuid-nil" stands for
\* the text of uuid.Nil.  Every other string is rejected.
NilUUID == "uuid-nil"
CanonicalUUIDs == {"uuid-1", "uuid-2", NilUUID}
UUIDParse(s) ==
    IF s \in CanonicalUUIDs THEN [err |-> FALSE, id |-> s]
    ELSE IF s = "UUID-1" THEN [err |-> FALSE, id |-> "uuid-1"]
    ELSE [err |-> TRUE, id |-> NilUUID]

\* url.Parse: fails on a string with no scheme before its first colon and
\* lower-cases the scheme; URL.String() prints the parsed form.
MalformedURL == ":bad"
URLParse(s) ==
    IF s = MalformedURL THEN [err |-> TRUE, url |-> ""]
    ELSE IF s = "HTTPS://idp/auth" THEN [err |-> FALSE, url |-> "https://idp/auth"]
    ELSE [err |-> FALSE, url |-> s]

\* json.Unmarshal into map[string]interface{} followed by json.Marshal of each
\* value: the request's config entries as (key, raw JSON) pairs.  Malformed
\* text and JSON of another type than object are errors, except the JSON
\* null, which Unmarshal accepts and leaves the map nil.
JSONUnmarshalObject(s) ==
    IF s = "{\"token\":\"t\"}" THEN [err |-> FALSE, entries |-> {<<"token", "\"t\"">>}]
    ELSE IF s = "{\"token\":\"t2\"}" THEN [err |-> FALSE, entries |-> {<<"token", "\"t2\"">>}]
    ELSE IF s = "{}" THEN [err |-> FALSE, entries |-> {}]
    ELSE IF s = "null" THEN [err |-> FALSE, entries |-> {}]
    ELSE [err |-> TRUE, entries |-> {}]

(***************************************************************************)
(* Answers of the remote API as the generated client returns them: a Go    *)
(* error, or a response value of one of the operation's response types.    *)
(***************************************************************************)
NoState == [T |-> "NoState"]
NoPlan == [T |-> "NoPlan"]
NoReq == [T |-> "NoReq"]
NoResp == [T |-> "NoResp"]
NoClient == [T |-> "nil"]
\* the call returned err != nil
CallError == [T |-> "error"]
\* the operation's typed 404 response (GetXNotFound)
NotFound == [T |-> "NotFound"]
\* another response type of the operation's result interface
OtherResponse == [T |-> "HTTPValidationError"]

\* One-field variations of a record: base, and base with one field replaced
\* by one of its alternatives.
Variations(base, alts) ==
    {base} \cup UNION {{[base EXCEPT ![f] = v] : v \in alts[f]} : f \in DOMAIN alts}

(***************************************************************************)
(* Outcomes of a handler.                                                  *)
(***************************************************************************)
\* returned before any remote call, with one error diagnostic
Abort(summary) ==
    [req |-> NoReq, calls |-> 0, diags |-> <<summary>>, wrote |-> "none", state |-> NoState]
\* returned after the remote call, with one error diagnostic, state untouched
Failed(request, summary) ==
    [req |-> request, calls |-> 1, diags |-> <<summary>>, wrote |-> "none", state |-> NoState]
\* resp.State.Set(model) after the remote call
StateSet(request, model) ==
    [req |-> request, calls |-> 1, diags |-> <<>>, wrote |-> "set", state |-> model]
\* resp.State.RemoveResource after the remote call
StateRemoved(request) ==
    [req |-> request, calls |-> 1, diags |-> <<>>, wrote |-> "removed", state |-> NoState]
\* returned after the remote call without touching the state
Returned(request) ==
    [req |-> request, calls |-> 1, diags |-> <<>>, wrote |-> "none", state |-> NoState]
\* a method call on a nil *v1.Client: the handler panics inside the client,
\* before any request leaves
NilClientPanic ==
    [req |-> NoReq, calls |-> 0, diags |-> <<"panic: nil pointer dereference">>,
     wrote |-> "none", state |-> NoState]

(***************************************************************************)
(* DevgraphProvider.Configure                                              *)
(***************************************************************************)
\* v1.NewClient parses the server URL and fails when it does not parse
NewClient(host, accessToken, environment) ==
    IF URLParse(host).err THEN NoClient
    ELSE [T |-> "Client", serverURL |-> URLParse(host).url, token |-> accessToken,
          \* the environmentTransport wrapped around the HTTP client, "" for none
          environment |-> environment]

\* a resolution in which a set environment variable wins over the config
Resolve_EnvFirst(configValue, envValue) ==
    IF envValue # "" THEN envValue ELSE ValueString(configValue)

\* config value when it is not null, the environment variable otherwise
Resolve(configValue, envValue) ==
    IF ~IsNull(configValue) THEN ValueString(configValue) ELSE envValue

\* a Configure that builds the client without validating host and token
DevgraphProviderConfigure_Unvalidated(cfg, env) ==
    LET host == Resolve(cfg.Host, env.DEVGRAPH_HOST)
        accessToken == Resolve(cfg.AccessToken, env.DEVGRAPH_ACCESS_TOKEN)
        environment == Resolve(cfg.Environment, env.DEVGRAPH_ENVIRONMENT)
        newClient == NewClient(host, accessToken, environment)
        resolved == [host |-> host, accessToken |-> accessToken, environment |-> environment]
    IN  IF newClient = NoClient
        THEN [ran |-> TRUE, resolved |-> resolved,
              diags |-> <<"Unable to Create Devgraph API Client">>, ResourceData |-> NoClient]
        ELSE [ran |-> TRUE, resolved |-> resolved, diags |-> <<>>, ResourceData |-> newClient]

DevgraphProviderConfigure(cfg, env) ==
    LET host == Resolve(cfg.Host, env.DEVGRAPH_HOST)
        accessToken == Resolve(cfg.AccessToken, env.DEVGRAPH_ACCESS_TOKEN)
        environment == Resolve(cfg.Environment, env.DEVGRAPH_ENVIRONMENT)
        missing == (IF host = "" THEN <<"Missing Devgraph API Host">> ELSE <<>>)
                   \o (IF accessToken = "" THEN <<"Missing Devgraph Access Token">> ELSE <<>>)
        newClient == NewClient(host, accessToken, environment)
        resolved == [host |-> host, accessToken |-> accessToken, environment |-> environment]
    IN  IF missing # <<>>
        THEN [ran |-> TRUE, resolved |-> resolved, diags |-> missing, ResourceData |-> NoClient]
        ELSE IF newClient = NoClient
        THEN [ran |-> TRUE, resolved |-> resolved,
              diags |-> <<"Unable to Create Devgraph API Client">>, ResourceData |-> NoClient]
        ELSE [ran |-> TRUE, resolved |-> resolved, diags |-> <<>>, ResourceData |-> newClient]

\* http.Header.Set: the value under a name is replaced
HeaderSet(h, name, value) ==
    [n \in DOMAIN h \cup {name} |-> IF n = name THEN value ELSE h[n]]

\* the header of a request as the client hands it to the transport: the
\* bearer token of the security source
RequestHeader(c) == [n \in {"Authorization"} |-> "Bearer " \o c.token]

\* a transport that passes the request on as it came
RoundTrip_PassThrough(c, h) == h

\* environmentTransport.RoundTrip, for a client whose transport Configure
\* wrapped (environment # "") or left alone
RoundTrip(c, h) ==
    IF c.environment # "" THEN HeaderSet(h, "Devgraph-Environment", c.environment) ELSE h

NoHeader == [T |-> "NoHeader"]

NotConfigured ==
    [ran |-> FALSE, resolved |-> [host |-> "", accessToken |-> "", environment |-> ""],
     diags |-> <<>>, ResourceData |-> NoClient]

(***************************************************************************)
(* <Resource>.Configure: the seven resources' Configure methods are the    *)
(* same text.  ProviderData is what the provider left in ResourceData.     *)
(***************************************************************************)
\* a Configure that stores whatever provider data it is given
ResourceConfigure_AcceptsAny(rclient, ProviderData) ==
    IF ProviderData = NoClient THEN [client |-> rclient, diags |-> <<>>]
    ELSE [client |-> ProviderData, diags |-> <<>>]

ResourceConfigure(rclient, ProviderData) ==
    IF ProviderData = NoClient THEN [client |-> rclient, diags |-> <<>>]
    ELSE IF ProviderData.T # "Client"
    THEN [client |-> rclient, diags |-> <<"Unexpected Resource Configure Type">>]
    ELSE [client |-> ProviderData, diags |-> <<>>]

(***************************************************************************)
(* ImportState.  resource.ImportStatePassthroughID starts from the empty   *)
(* state of the schema (every attribute null) and sets the attribute at    *)
(* the path to the identifier of the import request.                       *)
(***************************************************************************)
ImportStatePassthroughID(attributes, attrPath, id) ==
    [req |-> NoReq, calls |-> 0, diags |-> <<>>, wrote |-> "set",
     state |-> [a \in attributes |-> IF a = attrPath THEN StringValue(id) ELSE Null]]

(***************************************************************************)
(* devgraph_model_provider                                                 *)
(***************************************************************************)

\* v1.ModelProviderCreateData: a discriminator and one struct per variant, of
\* which the one the discriminator names is populated and the others are zero
ZeroCreate == [Type |-> "", Name |-> "", APIKey |-> "", Default |-> Opt(FALSE)]
ModelProviderCreateData(tag, payload) ==
    [Type |-> tag,
     OpenAIModelProviderCreate |->
        IF tag = "OpenAIModelProviderCreate" THEN payload ELSE ZeroCreate,
     AnthropicModelProviderCreate |->
        IF tag = "AnthropicModelProviderCreate" THEN payload ELSE ZeroCreate,
     XAIModelProviderCreate |->
        IF tag = "XAIModelProviderCreate" THEN payload ELSE ZeroCreate]

\* v1.ModelProviderResponse: the same shape on the response side
ZeroResponse ==
    [ID |-> NilUUID, Type |-> "", Name |-> "", APIKey |-> "", Default |-> Opt(FALSE)]
ModelProviderResponse(tag, payload) ==
    [T |-> "ModelProviderResponse", Type |-> tag,
     OpenAIModelProviderResponse |->
        IF tag = "OpenAIModelProviderResponse" THEN payload ELSE ZeroResponse,
     AnthropicModelProviderResponse |->
        IF tag = "AnthropicModelProviderResponse" THEN payload ELSE ZeroResponse,
     XAIModelProviderResponse |->
        IF tag = "XAIModelProviderResponse" THEN payload ELSE ZeroResponse]

\* the create request's variant for a provider type
ModelProviderCreateRequest(p) ==
    LET payload(t) == [Type |-> t, Name |-> ValueString(p.Name),
                       APIKey |-> ValueString(p.APIKey),
                       Default |-> NewOptBool(ValueBool(p.Default))]
        providerType == ValueString(p.Type)
    IN  CASE providerType = "openai" ->
               [Data |-> ModelProviderCreateData("OpenAIModelProviderCreate",
                                                 payload("openai"))]
          [] providerType = "anthropic" ->
               [Data |-> ModelProviderCreateData("AnthropicModelProviderCreate",
                                                 payload("anthropic"))]
          [] providerType = "xai" ->
               [Data |-> ModelProviderCreateData("XAIModelProviderCreate", payload("xai"))]
          [] OTHER -> NoReq

\* the fields one case of the response switch copies into the model;
\* Create and Update also copy the ID, Read does not
ModelProviderFromVariant(m, pr, withID) ==
    [m EXCEPT !.ID = IF withID THEN StringValue(pr.ID) ELSE @,
              !.Type = StringValue(pr.Type),
              !.Name = StringValue(pr.Name),
              !.APIKey = StringValue(pr.APIKey),
              !.Default = IF pr.Default.Set THEN BoolValue(pr.Default.Value) ELSE @]

\* a switch whose anthropic case reads the OpenAI struct
ModelProviderFromResponse_WrongAccessor(m, result, withID) ==
    CASE result.Type = "OpenAIModelProviderResponse" ->
           ModelProviderFromVariant(m, result.OpenAIModelProviderResponse, withID)
      [] result.Type = "AnthropicModelProviderResponse" ->
           ModelProviderFromVariant(m, result.OpenAIModelProviderResponse, withID)
      [] result.Type = "XAIModelProviderResponse" ->
           ModelProviderFromVariant(m, result.XAIModelProviderResponse, withID)
      [] OTHER -> m

\* switch result.Type: one case per variant, each reading its own struct;
\* no default case
ModelProviderFromResponse(m, result, withID) ==
    CASE result.Type = "OpenAIModelProviderResponse" ->
           ModelProviderFromVariant(m, result.OpenAIModelProviderResponse, withID)
      [] result.Type = "AnthropicModelProviderResponse" ->
           ModelProviderFromVariant(m, result.AnthropicModelProviderResponse, withID)
      [] result.Type = "XAIModelProviderResponse" ->
           ModelProviderFromVariant(m, result.XAIModelProviderResponse, withID)
      [] OTHER -> m

ModelProviderResource_Create(p, res) ==
    LET createReq == ModelProviderCreateRequest(p)
    IN  IF createReq = NoReq THEN Abort("Invalid provider type")
        ELSE IF res = CallError THEN Failed(createReq, "Error creating model provider")
        ELSE IF res.T # "ModelProviderResponse" THEN Failed(createReq, "Unexpected response type")
        ELSE StateSet(createReq, ModelProviderFromResponse(p, res, TRUE))

ModelProviderResource_Read(s, res) ==
    LET providerID == UUIDParse(ValueString(s.ID))
        getReq == [ProviderID |-> providerID.id]
    IN  IF providerID.err THEN Abort("Invalid Model Provider ID")
        ELSE IF res = CallError THEN Failed(getReq, "Error reading model provider")
        ELSE IF res = NotFound THEN StateRemoved(getReq)
        ELSE IF res.T # "ModelProviderResponse" THEN Failed(getReq, "Unexpected response type")
        ELSE StateSet(getReq, ModelProviderFromResponse(s, res, FALSE))

\* only the fields whose planned value differs from the state's
ModelProviderUpdateRequest(p, s, id) ==
    [ProviderID |-> id,
     Name |-> IF ~Equal(p.Name, s.Name) THEN NewOptNilString(ValueString(p.Name)) ELSE OptNil(""),
     APIKey |-> IF ~Equal(p.APIKey, s.APIKey) THEN NewOptNilString(ValueString(p.APIKey))
                ELSE OptNil(""),
     Default |-> IF ~Equal(p.Default, s.Default) THEN NewOptNilBool(ValueBool(p.Default))
                 ELSE OptNil(FALSE)]

ModelProviderResource_Update(p, s, res) ==
    LET providerID == UUIDParse(ValueString(s.ID))
        updateReq == ModelProviderUpdateRequest(p, s, providerID.id)
    IN  IF providerID.err THEN Abort("Invalid Model Provider ID")
        ELSE IF res = CallError THEN Failed(updateReq, "Error updating model provider")
        ELSE IF res.T # "ModelProviderResponse" THEN Failed(updateReq, "Unexpected response type")
        ELSE StateSet(updateReq, ModelProviderFromResponse(p, res, TRUE))

ModelProviderResource_Delete(s, res) ==
    LET providerID == UUIDParse(ValueString(s.ID))
        deleteReq == [ProviderID |-> providerID.id]
    IN  IF providerID.err THEN Abort("Invalid Model Provider ID")
        ELSE IF res = CallError THEN Failed(deleteReq, "Error deleting model provider")
        ELSE Returned(deleteReq)

ModelProviderResource_ImportState(id) ==
    ImportStatePassthroughID({"ID", "Type", "Name", "APIKey", "Default"}, "ID", id)

\* Plans of a Create: type is one of the validator's three values, id is
\* computed and unknown, default is the configured value or the schema default.
ModelProviderBasePlan ==
    [ID |-> Unknown, Type |-> StringValue("anthropic"), Name |-> StringValue("p1"),
     APIKey |-> StringValue("k1"), Default |-> BoolValue(FALSE)]

\* What the API may answer with a provider: the API key echoed, masked or
\* blanked; default present or omitted; any of the three variants, or a
\* response whose discriminator is none of them.
ModelProviderBasePayload ==
    [ID |-> "uuid-1", Type |-> "anthropic", Name |-> "p1", APIKey |-> "k1",
     Default |-> NewOptBool(FALSE)]
ModelProviderResponses ==
    {ModelProviderResponse("AnthropicModelProviderResponse", pr) :
        pr \in Variations(ModelProviderBasePayload,
                         [ID |-> {"uuid-2"}, Name |-> {"p2"}, APIKey |-> {"k2", "****", ""},
                          Default |-> {NewOptBool(TRUE), Opt(FALSE)}])}
    \cup {ModelProviderResponse("OpenAIModelProviderResponse",
                                [ModelProviderBasePayload EXCEPT !.Type = "openai"]),
          ModelProviderResponse("XAIModelProviderResponse",
                                [ModelProviderBasePayload EXCEPT !.Type = "xai"]),
          ModelProviderResponse("", ModelProviderBasePayload)}

\* Sequences over a set of at most n entries
SeqsUpTo(S, n) == UNION {[1..m -> S] : m \in 0..n}
\* the known list values with at most MaxLen elements of S
ListsOf(S) == {ListValueMust(l) : l \in SeqsUpTo(S, MaxLen)}

\* the first entry of a list response that satisfies the match, 0 for none
RECURSIVE FirstMatch(_, _, _)
FirstMatch(items, id, i) ==
    IF i > Len(items) THEN 0
    ELSE IF items[i].ID = id THEN i
    ELSE FirstMatch(items, id, i + 1)

(***************************************************************************)
(* devgraph_chat_suggestion                                                *)
(***************************************************************************)
ChatSuggestionCreateRequest(p) ==
    [Title |-> ValueString(p.Title), Label |-> ValueString(p.Label),
     Action |-> ValueString(p.Action),
     Active |-> IF ~IsNull(p.Active) THEN NewOptBool(ValueBool(p.Active)) ELSE Opt(FALSE)]

\* Create copies the ID, Read (inside its loop) does not
ChatSuggestionFromResponse(m, result, withID) ==
    [m EXCEPT !.ID = IF withID THEN StringValue(result.ID) ELSE @,
              !.Title = StringValue(result.Title),
              !.Label = StringValue(result.Label),
              !.Action = StringValue(result.Action),
              !.Active = IF result.Active.Set THEN BoolValue(result.Active.Value) ELSE @]

ChatSuggestionResource_Create(p, res) ==
    LET createReq == ChatSuggestionCreateRequest(p)
    IN  IF res = CallError THEN Failed(createReq, "Error creating chat suggestion")
        ELSE IF res.T # "ChatSuggestionResponse" THEN Failed(createReq, "Unexpected response type")
        ELSE StateSet(createReq, ChatSuggestionFromResponse(p, res, TRUE))

\* a Read that fetches the entry it found in the list with a second call
ChatSuggestionResource_Read_FetchesFound(s, res) ==
    LET suggestionID == UUIDParse(ValueString(s.ID))
        listReq == [List |-> "ListChatSuggestions"]
    IN  IF suggestionID.err THEN Abort("Invalid suggestion ID")
        ELSE IF res = CallError THEN Failed(listReq, "Error reading chat suggestions")
        ELSE IF res.T # "ListChatSuggestionsOKApplicationJSON"
        THEN Failed(listReq, "Unexpected response type")
        ELSE LET found == FirstMatch(res.items, suggestionID.id, 1)
             IN  IF found = 0 THEN StateRemoved(listReq)
                 ELSE [StateSet(listReq, ChatSuggestionFromResponse(s, res.items[found], FALSE))
                          EXCEPT !.calls = 2]

ChatSuggestionResource_Read(s, res) ==
    LET suggestionID == UUIDParse(ValueString(s.ID))
        listReq == [List |-> "ListChatSuggestions"]
    IN  IF suggestionID.err THEN Abort("Invalid suggestion ID")
        ELSE IF res = CallError THEN Failed(listReq, "Error reading chat suggestions")
        ELSE IF res.T # "ListChatSuggestionsOKApplicationJSON"
        THEN Failed(listReq, "Unexpected response type")
        ELSE LET found == FirstMatch(res.items, suggestionID.id, 1)
             IN  IF found = 0 THEN StateRemoved(listReq)
                 ELSE StateSet(listReq, ChatSuggestionFromResponse(s, res.items[found], FALSE))

\* no update endpoint: a fixed error, whatever the plan and the state
ChatSuggestionResource_Update(p, s, res) ==
    Abort("Update not supported")

ChatSuggestionResource_Delete(s, res) ==
    LET suggestionID == UUIDParse(ValueString(s.ID))
        deleteReq == [SuggestionID |-> suggestionID.id]
    IN  IF suggestionID.err THEN Abort("Invalid suggestion ID")
        ELSE IF res = CallError THEN Failed(deleteReq, "Error deleting chat suggestion")
        ELSE Returned(deleteReq)

ChatSuggestionResource_ImportState(id) ==
    ImportStatePassthroughID({"ID", "Title", "Label", "Action", "Active"}, "ID", id)

ChatSuggestionBasePlan ==
    [ID |-> Unknown, Title |-> StringValue("t1"), Label |-> StringValue("l1"),
     Action |-> StringValue("a1"), Active |-> BoolValue(TRUE)]

ChatSuggestionBaseItem ==
    [T |-> "ChatSuggestionResponse", ID |-> "uuid-1", Title |-> "t1", Label |-> "l1",
     Action |-> "a1", Active |-> NewOptBool(TRUE)]
ChatSuggestionResponses ==
    Variations(ChatSuggestionBaseItem,
               [ID |-> {"uuid-2"}, Title |-> {"t2"}, Label |-> {"l2"}, Action |-> {"a2"},
                Active |-> {NewOptBool(FALSE), Opt(FALSE)}])

(***************************************************************************)
(* devgraph_environment                                                    *)
(***************************************************************************)
EnvironmentCreateRequest(p) ==
    [Name |-> ValueString(p.Name),
     StripeSubscriptionID |-> ValueString(p.StripeSubscriptionID),
     InstanceURL |-> ValueString(p.InstanceURL),
     InvitedUsers |-> IF ~IsNull(p.InvitedUsers) THEN ElementsAsList(p.InvitedUsers) ELSE <<>>]

EnvironmentFromResponse(m, result, withID) ==
    [m EXCEPT !.ID = IF withID THEN StringValue(result.ID) ELSE @,
              !.Name = StringValue(result.Name),
              !.Slug = StringValue(result.Slug),
              !.ClerkOrganizationID = StringValue(result.ClerkOrganizationID),
              !.CustomerID = StringValue(result.CustomerID),
              !.SubscriptionID = StringValue(result.SubscriptionID)]

EnvironmentResource_Create(p, res) ==
    LET createReq == EnvironmentCreateRequest(p)
    IN  IF res = CallError THEN Failed(createReq, "Error creating environment")
        ELSE IF res.T # "EnvironmentResponse" THEN Failed(createReq, "Unexpected response type")
        ELSE StateSet(createReq, EnvironmentFromResponse(p, res, TRUE))

\* a Read that reports a missing entry as an error
EnvironmentResource_Read_ErrorWhenMissing(s, res) ==
    LET listReq == [List |-> "GetEnvironments"]
    IN  IF res = CallError THEN Failed(listReq, "Error reading environments")
        ELSE IF res.T # "GetEnvironmentsOKApplicationJSON"
        THEN Failed(listReq, "Unexpected response type")
        ELSE LET found == FirstMatch(res.items, ValueString(s.ID), 1)
             IN  IF found = 0 THEN Failed(listReq, "Environment not found")
                 ELSE StateSet(listReq, EnvironmentFromResponse(s, res.items[found], FALSE))

\* the stored id is compared as text with each entry's canonical id
EnvironmentResource_Read(s, res) ==
    LET listReq == [List |-> "GetEnvironments"]
    IN  IF res = CallError THEN Failed(listReq, "Error reading environments")
        ELSE IF res.T # "GetEnvironmentsOKApplicationJSON"
        THEN Failed(listReq, "Unexpected response type")
        ELSE LET found == FirstMatch(res.items, ValueString(s.ID), 1)
             IN  IF found = 0 THEN StateRemoved(listReq)
                 ELSE StateSet(listReq, EnvironmentFromResponse(s, res.items[found], FALSE))

EnvironmentResource_Update(p, s, res) ==
    Abort("Update not supported")

\* a Delete that calls a delete endpoint
EnvironmentResource_Delete_CallsRemote(s, res) ==
    LET deleteReq == [EnvironmentID |-> ValueString(s.ID)]
    IN  IF res = CallError THEN Failed(deleteReq, "Error deleting environment")
        ELSE Returned(deleteReq)

EnvironmentResource_Delete(s, res) ==
    Abort("Delete not supported")

EnvironmentResource_ImportState(id) ==
    ImportStatePassthroughID({"ID", "Name", "Slug", "ClerkOrganizationID", "CustomerID",
                              "SubscriptionID", "InvitedUsers", "StripeSubscriptionID",
                              "InstanceURL"}, "ID", id)

EnvironmentBasePlan ==
    [ID |-> Unknown, Name |-> StringValue("e1"), Slug |-> Unknown,
     ClerkOrganizationID |-> Unknown, CustomerID |-> Unknown, SubscriptionID |-> Unknown,
     InvitedUsers |-> ListValueMust(<<>>),
     StripeSubscriptionID |-> StringValue("sub_1"),
     InstanceURL |-> StringValue("https://e1.devgraph.ai")]

EnvironmentBaseItem ==
    [T |-> "EnvironmentResponse", ID |-> "uuid-1", Name |-> "e1", Slug |-> "e1-slug",
     ClerkOrganizationID |-> "org_1", CustomerID |-> "cus_1", SubscriptionID |-> "uuid-2"]
EnvironmentResponses ==
    Variations(EnvironmentBaseItem,
               [ID |-> {"uuid-2"}, Name |-> {"e2"}, Slug |-> {"e2-slug"},
                ClerkOrganizationID |-> {"org_2"}, CustomerID |-> {"cus_2"},
                SubscriptionID |-> {"uuid-1"}])

(***************************************************************************)
(* devgraph_model                                                          *)
(***************************************************************************)
ModelCreateRequest(p, providerID) ==
    [Name |-> ValueString(p.Name), ProviderID |-> providerID,
     Default |-> NewOptBool(ValueBool(p.Default)),
     Description |-> IF ~IsNull(p.Description) THEN NewOptNilString(ValueString(p.Description))
                     ELSE OptNil("")]

ModelFromResponse(m, result) ==
    [m EXCEPT !.ID = StringValue(result.ID),
              !.Name = StringValue(result.Name),
              !.Description = IF result.Description.Set
                              THEN StringValue(result.Description.Value) ELSE @,
              !.ProviderID = StringValue(result.ProviderID),
              !.Default = IF result.Default.Set THEN BoolValue(result.Default.Value) ELSE @]

\* a Create that deletes the remote object again when the response has an
\* unexpected type
ModelResource_Create_Compensates(p, res) ==
    LET providerID == UUIDParse(ValueString(p.ProviderID))
        createReq == ModelCreateRequest(p, providerID.id)
    IN  IF providerID.err THEN Abort("Invalid Provider ID")
        ELSE IF res = CallError THEN Failed(createReq, "Error creating model")
        ELSE IF res.T # "ModelResponse"
        THEN [Failed(createReq, "Unexpected response type") EXCEPT !.calls = 2]
        ELSE StateSet(createReq, ModelFromResponse(p, res))

ModelResource_Create(p, res) ==
    LET providerID == UUIDParse(ValueString(p.ProviderID))
        createReq == ModelCreateRequest(p, providerID.id)
    IN  IF providerID.err THEN Abort("Invalid Provider ID")
        ELSE IF res = CallError THEN Failed(createReq, "Error creating model")
        ELSE IF res.T # "ModelResponse" THEN Failed(createReq, "Unexpected response type")
        ELSE StateSet(createReq, ModelFromResponse(p, res))

\* addressed by the name in state
ModelResource_Read(s, res) ==
    LET getReq == [ModelName |-> ValueString(s.Name)]
    IN  IF res = CallError THEN Failed(getReq, "Error reading model")
        ELSE IF res = NotFound THEN StateRemoved(getReq)
        ELSE IF res.T # "ModelResponse" THEN Failed(getReq, "Unexpected response type")
        ELSE StateSet(getReq, ModelFromResponse(s, res))

\* a description changed to null is sent as NewOptNilString("")
ModelUpdateDescription(p, s) ==
    IF ~Equal(p.Description, s.Description)
    THEN IF IsNull(p.Description) THEN NewOptNilString("")
         ELSE NewOptNilString(ValueString(p.Description))
    ELSE OptNil("")

ModelUpdateRequest(p, s, providerID) ==
    [ModelName |-> ValueString(s.Name),
     Description |-> ModelUpdateDescription(p, s),
     ProviderID |-> IF ~Equal(p.ProviderID, s.ProviderID) THEN NewOptNilUUID(providerID)
                    ELSE OptNil(NilUUID),
     Default |-> IF ~Equal(p.Default, s.Default) THEN NewOptNilBool(ValueBool(p.Default))
                 ELSE OptNil(FALSE)]

ModelResource_Update(p, s, res) ==
    LET providerID == UUIDParse(ValueString(p.ProviderID))
        updateReq == ModelUpdateRequest(p, s, providerID.id)
    IN  IF ~Equal(p.ProviderID, s.ProviderID) /\ providerID.err THEN Abort("Invalid Provider ID")
        ELSE IF res = CallError THEN Failed(updateReq, "Error updating model")
        ELSE IF res.T # "ModelResponse" THEN Failed(updateReq, "Unexpected response type")
        ELSE StateSet(updateReq, ModelFromResponse(p, res))

ModelResource_Delete(s, res) ==
    LET deleteReq == [ModelName |-> ValueString(s.Name)]
    IN  IF res = CallError THEN Failed(deleteReq, "Error deleting model")
        ELSE Returned(deleteReq)

\* an import that writes the identifier to id
ModelResource_ImportState_ByID(id) ==
    ImportStatePassthroughID({"ID", "Name", "Description", "ProviderID", "Default"}, "ID", id)

\* models are imported by name
ModelResource_ImportState(id) ==
    ImportStatePassthroughID({"ID", "Name", "Description", "ProviderID", "Default"}, "Name", id)

ModelBasePlan ==
    [ID |-> Unknown, Name |-> StringValue("m1"), Description |-> StringValue("d1"),
     ProviderID |-> StringValue("uuid-1"), Default |-> BoolValue(FALSE)]

ModelBaseResponse ==
    [T |-> "ModelResponse", ID |-> "uuid-2", Name |-> "m1",
     Description |-> NewOptNilString("d1"), ProviderID |-> "uuid-1",
     Default |-> NewOptBool(FALSE)]
ModelResponses ==
    Variations(ModelBaseResponse,
               [ID |-> {"uuid-1"}, Name |-> {"m2"},
                Description |-> {NewOptNilString("d2"), NewOptNilString(""),
                                 OptNilNull(""), OptNil("")},
                ProviderID |-> {"uuid-2"},
                Default |-> {NewOptBool(TRUE), Opt(FALSE)}])

(***************************************************************************)
(* devgraph_discovery_provider                                             *)
(***************************************************************************)
\* schema default of interval
DefaultInterval == 300

DiscoveryProviderCreateRequest(p, entries) ==
    [Name |-> ValueString(p.Name), ProviderType |-> ValueString(p.ProviderType),
     Config |-> entries,
     Enabled |-> IF ~IsNull(p.Enabled) THEN NewOptBool(ValueBool(p.Enabled)) ELSE Opt(FALSE),
     Interval |-> IF ~IsNull(p.Interval) THEN NewOptInt(ValueInt64(p.Interval)) ELSE Opt(0)]

\* a merge that also stores the configuration the response carries
DiscoveryProviderFromResponse_TakesConfig(m, result, withID) ==
    [m EXCEPT !.ID = IF withID THEN StringValue(result.ID) ELSE @,
              !.Name = StringValue(result.Name),
              !.ProviderType = StringValue(result.ProviderType),
              !.Enabled = BoolValue(result.Enabled),
              !.Interval = Int64Value(result.Interval),
              !.Config = StringValue(IF result.Config = {} THEN "{}"
                                     ELSE "{\"token\":\"***\"}")]

\* config is not copied from the response; Create and Update copy the ID
DiscoveryProviderFromResponse(m, result, withID) ==
    [m EXCEPT !.ID = IF withID THEN StringValue(result.ID) ELSE @,
              !.Name = StringValue(result.Name),
              !.ProviderType = StringValue(result.ProviderType),
              !.Enabled = BoolValue(result.Enabled),
              !.Interval = Int64Value(result.Interval)]

\* a Create that sends the request without validating the config text
DiscoveryProviderResource_Create_Unvalidated(p, res) ==
    LET validateMap == JSONUnmarshalObject(ValueString(p.Config))
        createReq == DiscoveryProviderCreateRequest(p, validateMap.entries)
    IN  IF res = CallError THEN Failed(createReq, "Error creating discovery provider")
        ELSE IF res.T = "ConfiguredProviderResponse"
        THEN StateSet(createReq, DiscoveryProviderFromResponse(p, res, TRUE))
        ELSE IF res = NotFound THEN Failed(createReq, "Provider type not found")
        ELSE Failed(createReq, "Unexpected response type")

DiscoveryProviderResource_Create(p, res) ==
    LET validateMap == JSONUnmarshalObject(ValueString(p.Config))
        createReq == DiscoveryProviderCreateRequest(p, validateMap.entries)
    IN  IF validateMap.err THEN Abort("Invalid Config JSON")
        ELSE IF res = CallError THEN Failed(createReq, "Error creating discovery provider")
        ELSE IF res.T = "ConfiguredProviderResponse"
        THEN StateSet(createReq, DiscoveryProviderFromResponse(p, res, TRUE))
        ELSE IF res = NotFound THEN Failed(createReq, "Provider type not found")
        ELSE Failed(createReq, "Unexpected response type")

\* a Read that drops the resource when the response has an unexpected type,
\* and says so
DiscoveryProviderResource_Read_RemovesOnError(s, res) ==
    LET providerID == UUIDParse(ValueString(s.ID))
        getReq == [ProviderID |-> providerID.id]
    IN  IF providerID.err THEN Abort("Invalid provider ID")
        ELSE IF res = CallError THEN Failed(getReq, "Error reading discovery provider")
        ELSE IF res.T = "ConfiguredProviderResponse"
        THEN StateSet(getReq, DiscoveryProviderFromResponse(s, res, FALSE))
        ELSE IF res = NotFound THEN StateRemoved(getReq)
        ELSE [StateRemoved(getReq) EXCEPT !.diags = <<"Unexpected response type">>]

DiscoveryProviderResource_Read(s, res) ==
    LET providerID == UUIDParse(ValueString(s.ID))
        getReq == [ProviderID |-> providerID.id]
    IN  IF providerID.err THEN Abort("Invalid provider ID")
        ELSE IF res = CallError THEN Failed(getReq, "Error reading discovery provider")
        ELSE IF res.T = "ConfiguredProviderResponse"
        THEN StateSet(getReq, DiscoveryProviderFromResponse(s, res, FALSE))
        ELSE IF res = NotFound THEN StateRemoved(getReq)
        ELSE Failed(getReq, "Unexpected response type")

DiscoveryProviderUpdateRequest(p, s, id, entries) ==
    [ProviderID |-> id,
     Name |-> IF ~Equal(p.Name, s.Name) THEN NewOptNilString(ValueString(p.Name)) ELSE OptNil(""),
     Enabled |-> IF ~Equal(p.Enabled, s.Enabled) THEN NewOptNilBool(ValueBool(p.Enabled))
                 ELSE OptNil(FALSE),
     Interval |-> IF ~Equal(p.Interval, s.Interval) THEN NewOptNilInt(ValueInt64(p.Interval))
                  ELSE OptNil(0),
     Config |-> IF ~Equal(p.Config, s.Config) THEN NewOptNil(entries) ELSE OptNil({})]

DiscoveryProviderResource_Update(p, s, res) ==
    LET providerID == UUIDParse(ValueString(s.ID))
        validateMap == JSONUnmarshalObject(ValueString(p.Config))
        updateReq == DiscoveryProviderUpdateRequest(p, s, providerID.id, validateMap.entries)
    IN  IF providerID.err THEN Abort("Invalid provider ID")
        ELSE IF ~Equal(p.Config, s.Config) /\ validateMap.err THEN Abort("Invalid Config JSON")
        ELSE IF res = CallError THEN Failed(updateReq, "Error updating discovery provider")
        ELSE IF res.T # "ConfiguredProviderResponse"
        THEN Failed(updateReq, "Unexpected response type")
        ELSE StateSet(updateReq, DiscoveryProviderFromResponse(p, res, TRUE))

DiscoveryProviderResource_Delete(s, res) ==
    LET providerID == UUIDParse(ValueString(s.ID))
        deleteReq == [ProviderID |-> providerID.id]
    IN  IF providerID.err THEN Abort("Invalid provider ID")
        ELSE IF res = CallError THEN Failed(deleteReq, "Error deleting discovery provider")
        ELSE Returned(deleteReq)

DiscoveryProviderResource_ImportState(id) ==
    ImportStatePassthroughID({"ID", "Name", "ProviderType", "Enabled", "Interval",
                              "Config"}, "ID", id)

ConfigStrings ==
    {"{\"token\":\"t\"}", "{\"token\":\"t2\"}", "{}", "null", "[1]", "{bad"}
DiscoveryProviderBasePlan ==
    [ID |-> Unknown, Name |-> StringValue("GitHub Production"),
     ProviderType |-> StringValue("github"), Enabled |-> BoolValue(TRUE),
     Interval |-> Int64Value(DefaultInterval), Config |-> StringValue("{\"token\":\"t\"}")]

DiscoveryProviderBaseResponse ==
    [T |-> "ConfiguredProviderResponse", ID |-> "uuid-1", Name |-> "GitHub Production",
     ProviderType |-> "github", Enabled |-> TRUE, Interval |-> DefaultInterval,
     Config |-> {<<"token", "\"***\"">>}]
DiscoveryProviderResponses ==
    Variations(DiscoveryProviderBaseResponse,
               [ID |-> {"uuid-2"}, Name |-> {"GitHub Staging"}, ProviderType |-> {"gitlab"},
                Enabled |-> {FALSE}, Interval |-> {60},
                Config |-> {{<<"token", "\"t\"">>}, {}}])


(***************************************************************************)
(* devgraph_mcp_endpoint                                                   *)
(***************************************************************************)
MCPEndpointCreateRequest(p, oauthID) ==
    LET headers == IF ~IsNull(p.Headers) THEN ElementsAsMap(p.Headers) ELSE {}
        allowedTools == IF ~IsNull(p.AllowedTools) THEN ElementsAsList(p.AllowedTools) ELSE <<>>
        deniedTools == IF ~IsNull(p.DeniedTools) THEN ElementsAsList(p.DeniedTools) ELSE <<>>
    IN  [Name |-> ValueString(p.Name),
         URL |-> ValueString(p.URL),
         Description |-> IF ~IsNull(p.Description)
                         THEN NewOptNilString(ValueString(p.Description)) ELSE OptNil(""),
         Headers |-> IF Cardinality(headers) > 0 THEN NewOpt(headers) ELSE Opt({}),
         DevgraphAuth |-> NewOptBool(ValueBool(p.DevgraphAuth)),
         SupportsResources |-> NewOptBool(ValueBool(p.SupportsResources)),
         Immutable |-> NewOptBool(ValueBool(p.Immutable)),
         Active |-> NewOptBool(ValueBool(p.Active)),
         OAuthServiceID |-> IF ~IsNull(p.OAuthServiceID) THEN NewOptNilUUID(oauthID)
                            ELSE OptNil(NilUUID),
         AllowedTools |-> IF Len(allowedTools) > 0 THEN NewOptNilStringArray(allowedTools)
                          ELSE OptNil(<<>>),
         DeniedTools |-> IF Len(deniedTools) > 0 THEN NewOptNilStringArray(deniedTools)
                         ELSE OptNil(<<>>)]

\* what Create (with the ID) and Read (without) copy from the response
MCPEndpointFromResponse(m, result, withID) ==
    [m EXCEPT !.ID = IF withID THEN StringValue(result.ID) ELSE @,
              !.Name = StringValue(result.Name),
              !.URL = StringValue(result.URL),
              !.Description = IF result.Description.Set
                              THEN StringValue(result.Description.Value) ELSE @,
              !.Headers = IF result.Headers.Set /\ Cardinality(result.Headers.Value) > 0
                          THEN MapValueMust(result.Headers.Value) ELSE @,
              !.DevgraphAuth = IF result.DevgraphAuth.Set
                               THEN BoolValue(result.DevgraphAuth.Value) ELSE @,
              !.SupportsResources = IF result.SupportsResources.Set
                                    THEN BoolValue(result.SupportsResources.Value) ELSE @,
              !.Immutable = IF result.Immutable.Set
                            THEN BoolValue(result.Immutable.Value) ELSE @,
              !.Active = IF result.Active.Set THEN BoolValue(result.Active.Value) ELSE @,
              !.OAuthServiceID = IF result.OAuthServiceID.Set
                                    /\ result.OAuthServiceID.Value # NilUUID
                                 THEN StringValue(result.OAuthServiceID.Value) ELSE @]

\* what Update copies from the response
MCPEndpointFromUpdateResponse(m, result) ==
    [m EXCEPT !.Name = StringValue(result.Name),
              !.URL = StringValue(result.URL),
              !.Description = IF result.Description.Set
                              THEN StringValue(result.Description.Value) ELSE @]

MCPEndpointResource_Create(p, res) ==
    LET oauthID == UUIDParse(ValueString(p.OAuthServiceID))
        createReq == MCPEndpointCreateRequest(p, oauthID.id)
    IN  IF ~IsNull(p.OAuthServiceID) /\ oauthID.err THEN Abort("Invalid OAuth Service ID")
        ELSE IF res = CallError THEN Failed(createReq, "Error creating MCP endpoint")
        ELSE IF res.T # "MCPEndpointResponse" THEN Failed(createReq, "Unexpected response type")
        ELSE StateSet(createReq, MCPEndpointFromResponse(p, res, TRUE))

MCPEndpointResource_Read(s, res) ==
    LET endpointID == UUIDParse(ValueString(s.ID))
        getReq == [McpendpointID |-> endpointID.id]
    IN  IF endpointID.err THEN Abort("Invalid MCP Endpoint ID")
        ELSE IF res = CallError THEN Failed(getReq, "Error reading MCP endpoint")
        ELSE IF res = NotFound THEN StateRemoved(getReq)
        ELSE IF res.T # "MCPEndpointResponse" THEN Failed(getReq, "Unexpected response type")
        ELSE StateSet(getReq, MCPEndpointFromResponse(s, res, FALSE))

\* built from the plan alone: every field that is not null in the plan
MCPEndpointUpdateRequest(p, id, oauthID) ==
    [McpendpointID |-> id,
     Name |-> IF ~IsNull(p.Name) THEN NewOptNilString(ValueString(p.Name)) ELSE OptNil(""),
     URL |-> IF ~IsNull(p.URL) THEN NewOptNilString(ValueString(p.URL)) ELSE OptNil(""),
     Description |-> IF ~IsNull(p.Description)
                     THEN NewOptNilString(ValueString(p.Description)) ELSE OptNil(""),
     Headers |-> IF ~IsNull(p.Headers) THEN NewOptNil(ElementsAsMap(p.Headers)) ELSE OptNil({}),
     DevgraphAuth |-> IF ~IsNull(p.DevgraphAuth) THEN NewOptNilBool(ValueBool(p.DevgraphAuth))
                      ELSE OptNil(FALSE),
     SupportsResources |-> IF ~IsNull(p.SupportsResources)
                           THEN NewOptNilBool(ValueBool(p.SupportsResources))
                           ELSE OptNil(FALSE),
     Immutable |-> IF ~IsNull(p.Immutable) THEN NewOptNilBool(ValueBool(p.Immutable))
                   ELSE OptNil(FALSE),
     Active |-> IF ~IsNull(p.Active) THEN NewOptNilBool(ValueBool(p.Active)) ELSE OptNil(FALSE),
     OAuthServiceID |-> IF ~IsNull(p.OAuthServiceID) THEN NewOptNilUUID(oauthID)
                        ELSE OptNil(NilUUID),
     AllowedTools |-> IF ~IsNull(p.AllowedTools)
                      THEN NewOptNilStringArray(ElementsAsList(p.AllowedTools))
                      ELSE OptNil(<<>>),
     DeniedTools |-> IF ~IsNull(p.DeniedTools)
                     THEN NewOptNilStringArray(ElementsAsList(p.DeniedTools))
                     ELSE OptNil(<<>>)]

\* reads the plan only; the endpoint is addressed by the plan's id
MCPEndpointResource_Update(p, s, res) ==
    LET endpointID == UUIDParse(ValueString(p.ID))
        oauthID == UUIDParse(ValueString(p.OAuthServiceID))
        updateReq == MCPEndpointUpdateRequest(p, endpointID.id, oauthID.id)
    IN  IF endpointID.err THEN Abort("Invalid MCP Endpoint ID")
        ELSE IF ~IsNull(p.OAuthServiceID) /\ oauthID.err THEN Abort("Invalid OAuth Service ID")
        ELSE IF res = CallError THEN Failed(updateReq, "Error updating MCP endpoint")
        ELSE IF res.T # "MCPEndpointResponse" THEN Failed(updateReq, "Unexpected response type")
        ELSE StateSet(updateReq, MCPEndpointFromUpdateResponse(p, res))

\* a Delete that does not look at the call's error
MCPEndpointResource_Delete_IgnoresError(s, res) ==
    LET endpointID == UUIDParse(ValueString(s.ID))
        deleteReq == [McpendpointID |-> endpointID.id]
    IN  IF endpointID.err THEN Abort("Invalid MCP Endpoint ID")
        ELSE Returned(deleteReq)

MCPEndpointResource_Delete(s, res) ==
    LET endpointID == UUIDParse(ValueString(s.ID))
        deleteReq == [McpendpointID |-> endpointID.id]
    IN  IF endpointID.err THEN Abort("Invalid MCP Endpoint ID")
        ELSE IF res = CallError THEN Failed(deleteReq, "Error deleting MCP endpoint")
        ELSE Returned(deleteReq)

MCPEndpointResource_ImportState(id) ==
    ImportStatePassthroughID({"ID", "Name", "URL", "Description", "Headers", "DevgraphAuth",
                              "SupportsResources", "OAuthServiceID", "Immutable", "Active",
                              "AllowedTools", "DeniedTools"}, "ID", id)

MCPEndpointBasePlan ==
    [ID |-> Unknown, Name |-> StringValue("mcp1"), URL |-> StringValue("https://mcp1/v1"),
     Description |-> StringValue("d1"), Headers |-> MapValueMust({}),
     DevgraphAuth |-> BoolValue(FALSE), SupportsResources |-> BoolValue(FALSE),
     OAuthServiceID |-> Null, Immutable |-> BoolValue(FALSE), Active |-> BoolValue(TRUE),
     AllowedTools |-> Null, DeniedTools |-> Null]

MCPEndpointBaseResponse ==
    [T |-> "MCPEndpointResponse", ID |-> "uuid-1", Name |-> "mcp1", URL |-> "https://mcp1/v1",
     Description |-> NewOptNilString("d1"), Headers |-> NewOpt({}),
     DevgraphAuth |-> NewOptBool(FALSE), SupportsResources |-> NewOptBool(FALSE),
     Immutable |-> NewOptBool(FALSE), Active |-> NewOptBool(TRUE),
     OAuthServiceID |-> OptNilNull(NilUUID)]
MCPEndpointResponses ==
    Variations(MCPEndpointBaseResponse,
               [ID |-> {"uuid-2"}, Name |-> {"mcp2"}, URL |-> {"https://mcp2/v1"},
                Description |-> {NewOptNilString("d2"), OptNilNull(""), OptNil("")},
                Headers |-> {NewOpt({<<"X-Custom-Header", "value">>}), Opt({})},
                DevgraphAuth |-> {NewOptBool(TRUE), Opt(FALSE)},
                SupportsResources |-> {NewOptBool(TRUE)},
                Immutable |-> {NewOptBool(TRUE)},
                Active |-> {NewOptBool(FALSE), Opt(FALSE)},
                OAuthServiceID |-> {NewOptNilUUID("uuid-2"), OptNil(NilUUID)}])


(***************************************************************************)
(* devgraph_oauth_service                                                  *)
(***************************************************************************)
\* an optional URL attribute of a request: omitted when the plan has null
OptionalURL(x) ==
    IF ~IsNull(x) THEN NewOptNilURI(URLParse(ValueString(x)).url) ELSE OptNil("")
\* the URL attributes in the order the handler parses them; the first that
\* does not parse decides the error
FirstBadURL(checks) ==
    LET bad == {i \in 1..Len(checks) :
                   ~IsNull(checks[i][1]) /\ URLParse(ValueString(checks[i][1])).err}
    IN  IF bad = {} THEN ""
        ELSE checks[CHOOSE i \in bad : \A j \in bad : i <= j][2]

OAuthServiceCreateRequest(p) ==
    [Name |-> ValueString(p.Name),
     DisplayName |-> ValueString(p.DisplayName),
     ClientID |-> ValueString(p.ClientID),
     ClientSecret |-> ValueString(p.ClientSecret),
     AuthorizationURL |-> URLParse(ValueString(p.AuthorizationURL)).url,
     TokenURL |-> URLParse(ValueString(p.TokenURL)).url,
     SupportedGrantTypes |-> IF ~IsNull(p.SupportedGrantTypes) /\ ~IsUnknown(p.SupportedGrantTypes)
                             THEN ElementsAsList(p.SupportedGrantTypes) ELSE <<>>,
     Description |-> IF ~IsNull(p.Description)
                     THEN NewOptNilString(ValueString(p.Description)) ELSE OptNil(""),
     DefaultScopes |-> IF ~IsNull(p.DefaultScopes) /\ ~IsUnknown(p.DefaultScopes)
                       THEN NewOptNilStringArray(ElementsAsList(p.DefaultScopes))
                       ELSE OptNil(<<>>),
     UserinfoURL |-> OptionalURL(p.UserinfoURL),
     IsActive |-> IF ~IsNull(p.IsActive) THEN NewOptBool(ValueBool(p.IsActive)) ELSE Opt(FALSE),
     IconURL |-> OptionalURL(p.IconURL),
     HomepageURL |-> OptionalURL(p.HomepageURL)]

\* a nullable response string: null in state when the response says null
FromNilString(x) == IF ~x.Null THEN StringValue(x.Value) ELSE StringNull

\* a merge that also stores the name the response carries
OAuthServiceFromResponse_TakesName(m, result, created) ==
    [m EXCEPT !.ID = IF created THEN StringValue(result.ID) ELSE @,
              !.Name = StringValue(result.Name),
              !.DisplayName = StringValue(result.DisplayName),
              !.AuthorizationURL = StringValue(result.AuthorizationURL),
              !.TokenURL = StringValue(result.TokenURL),
              !.IsActive = BoolValue(result.IsActive),
              !.CreatedAt = IF created THEN StringValue(result.CreatedAt) ELSE @,
              !.UpdatedAt = StringValue(result.UpdatedAt),
              !.Description = FromNilString(result.Description),
              !.UserinfoURL = FromNilString(result.UserinfoURL),
              !.IconURL = FromNilString(result.IconURL),
              !.HomepageURL = FromNilString(result.HomepageURL),
              !.DefaultScopes = ListValueMust(result.DefaultScopes),
              !.SupportedGrantTypes = ListValueMust(result.SupportedGrantTypes)]

\* name, client_id and client_secret are never copied from the response;
\* Create also copies the ID and created_at
OAuthServiceFromResponse(m, result, created) ==
    [m EXCEPT !.ID = IF created THEN StringValue(result.ID) ELSE @,
              !.DisplayName = StringValue(result.DisplayName),
              !.AuthorizationURL = StringValue(result.AuthorizationURL),
              !.TokenURL = StringValue(result.TokenURL),
              !.IsActive = BoolValue(result.IsActive),
              !.CreatedAt = IF created THEN StringValue(result.CreatedAt) ELSE @,
              !.UpdatedAt = StringValue(result.UpdatedAt),
              !.Description = FromNilString(result.Description),
              !.UserinfoURL = FromNilString(result.UserinfoURL),
              !.IconURL = FromNilString(result.IconURL),
              !.HomepageURL = FromNilString(result.HomepageURL),
              !.DefaultScopes = ListValueMust(result.DefaultScopes),
              !.SupportedGrantTypes = ListValueMust(result.SupportedGrantTypes)]

\* a Read merge that copies the description without looking at its null flag
OAuthServiceFromReadResponse_IgnoresNull(m, result) ==
    [OAuthServiceFromResponse(m, result, FALSE) EXCEPT
        !.CreatedAt = StringValue(result.CreatedAt),
        !.Description = StringValue(result.Description.Value)]

\* Read copies created_at but not the ID
OAuthServiceFromReadResponse(m, result) ==
    [OAuthServiceFromResponse(m, result, FALSE) EXCEPT
        !.CreatedAt = StringValue(result.CreatedAt)]

OAuthServiceResource_Create(p, res) ==
    LET badURL == FirstBadURL(<< <<p.AuthorizationURL, "Invalid authorization URL">>,
                                 <<p.TokenURL, "Invalid token URL">>,
                                 <<p.UserinfoURL, "Invalid userinfo URL">>,
                                 <<p.IconURL, "Invalid icon URL">>,
                                 <<p.HomepageURL, "Invalid homepage URL">> >>)
        createReq == OAuthServiceCreateRequest(p)
    IN  IF badURL # "" THEN Abort(badURL)
        ELSE IF res = CallError THEN Failed(createReq, "Error creating OAuth service")
        ELSE IF res.T # "OAuthServiceResponse" THEN Failed(createReq, "Unexpected response type")
        ELSE StateSet(createReq, OAuthServiceFromResponse(p, res, TRUE))

OAuthServiceResource_Read(s, res) ==
    LET serviceID == UUIDParse(ValueString(s.ID))
        getReq == [ServiceID |-> serviceID.id]
    IN  IF serviceID.err THEN Abort("Invalid OAuth Service ID")
        ELSE IF res = CallError THEN Failed(getReq, "Error reading OAuth service")
        ELSE IF res = NotFound THEN StateRemoved(getReq)
        ELSE IF res.T # "OAuthServiceResponse" THEN Failed(getReq, "Unexpected response type")
        ELSE StateSet(getReq, OAuthServiceFromReadResponse(s, res))

\* built from the plan alone: every field that is not null in the plan
OAuthServiceUpdateRequest(p, id) ==
    [ServiceID |-> id,
     DisplayName |-> IF ~IsNull(p.DisplayName)
                     THEN NewOptNilString(ValueString(p.DisplayName)) ELSE OptNil(""),
     ClientID |-> IF ~IsNull(p.ClientID)
                  THEN NewOptNilString(ValueString(p.ClientID)) ELSE OptNil(""),
     ClientSecret |-> IF ~IsNull(p.ClientSecret)
                      THEN NewOptNilString(ValueString(p.ClientSecret)) ELSE OptNil(""),
     AuthorizationURL |-> OptionalURL(p.AuthorizationURL),
     TokenURL |-> OptionalURL(p.TokenURL),
     Description |-> IF ~IsNull(p.Description)
                     THEN NewOptNilString(ValueString(p.Description)) ELSE OptNil(""),
     DefaultScopes |-> IF ~IsNull(p.DefaultScopes) /\ ~IsUnknown(p.DefaultScopes)
                       THEN NewOptNilStringArray(ElementsAsList(p.DefaultScopes))
                       ELSE OptNil(<<>>),
     SupportedGrantTypes |-> IF ~IsNull(p.SupportedGrantTypes) /\ ~IsUnknown(p.SupportedGrantTypes)
                             THEN NewOptNilStringArray(ElementsAsList(p.SupportedGrantTypes))
                             ELSE OptNil(<<>>),
     UserinfoURL |-> OptionalURL(p.UserinfoURL),
     IsActive |-> IF ~IsNull(p.IsActive) THEN NewOptNilBool(ValueBool(p.IsActive))
                  ELSE OptNil(FALSE),
     IconURL |-> OptionalURL(p.IconURL),
     HomepageURL |-> OptionalURL(p.HomepageURL)]

\* reads the plan only; the service is addressed by the plan's id
OAuthServiceResource_Update(p, s, res) ==
    LET serviceID == UUIDParse(ValueString(p.ID))
        badURL == FirstBadURL(<< <<p.AuthorizationURL, "Invalid authorization URL">>,
                                 <<p.TokenURL, "Invalid token URL">>,
                                 <<p.UserinfoURL, "Invalid userinfo URL">>,
                                 <<p.IconURL, "Invalid icon URL">>,
                                 <<p.HomepageURL, "Invalid homepage URL">> >>)
        updateReq == OAuthServiceUpdateRequest(p, serviceID.id)
    IN  IF serviceID.err THEN Abort("Invalid OAuth Service ID")
        ELSE IF badURL # "" THEN Abort(badURL)
        ELSE IF res = CallError THEN Failed(updateReq, "Error updating OAuth service")
        ELSE IF res.T # "OAuthServiceResponse" THEN Failed(updateReq, "Unexpected response type")
        ELSE StateSet(updateReq, OAuthServiceFromResponse(p, res, FALSE))

OAuthServiceResource_Delete(s, res) ==
    LET serviceID == UUIDParse(ValueString(s.ID))
        deleteReq == [ServiceID |-> serviceID.id]
    IN  IF serviceID.err THEN Abort("Invalid OAuth Service ID")
        ELSE IF res = CallError THEN Failed(deleteReq, "Error deleting OAuth service")
        ELSE Returned(deleteReq)

OAuthServiceResource_ImportState(id) ==
    ImportStatePassthroughID({"ID", "Name", "DisplayName", "Description", "ClientID",
                              "ClientSecret", "AuthorizationURL", "TokenURL", "UserinfoURL",
                              "DefaultScopes", "SupportedGrantTypes", "IsActive", "IconURL",
                              "HomepageURL", "CreatedAt", "UpdatedAt"}, "ID", id)

OAuthServiceBasePlan ==
    [ID |-> Unknown, Name |-> StringValue("github"), DisplayName |-> StringValue("GitHub"),
     Description |-> Null, ClientID |-> StringValue("cid1"),
     ClientSecret |-> StringValue("s1"),
     AuthorizationURL |-> StringValue("https://idp/auth"),
     TokenURL |-> StringValue("https://idp/token"), UserinfoURL |-> Null,
     DefaultScopes |-> ListValueMust(<<>>), SupportedGrantTypes |-> ListValueMust(<<>>),
     IsActive |-> BoolValue(TRUE), IconURL |-> Null, HomepageURL |-> Null,
     CreatedAt |-> Unknown, UpdatedAt |-> Unknown]

OAuthServiceBaseResponse ==
    [T |-> "OAuthServiceResponse", ID |-> "uuid-1", Name |-> "github",
     DisplayName |-> "GitHub", ClientID |-> "cid1", ClientSecret |-> "****",
     AuthorizationURL |-> "https://idp/auth", TokenURL |-> "https://idp/token",
     IsActive |-> TRUE, CreatedAt |-> "2025-01-01T00:00:00Z",
     UpdatedAt |-> "2025-01-01T00:00:00Z",
     Description |-> OptNilNull(""), UserinfoURL |-> OptNilNull(""),
     IconURL |-> OptNilNull(""), HomepageURL |-> OptNilNull(""),
     DefaultScopes |-> <<>>, SupportedGrantTypes |-> <<>>]
OAuthServiceResponses ==
    Variations(OAuthServiceBaseResponse,
               [ID |-> {"uuid-2"}, Name |-> {"GitHub-normalised"},
                DisplayName |-> {"GitLab"},
                ClientSecret |-> {"s1", ""},
                AuthorizationURL |-> {"https://idp/auth/"},
                TokenURL |-> {"https://idp/token2"},
                IsActive |-> {FALSE},
                CreatedAt |-> {"2025-02-02T00:00:00Z"},
                UpdatedAt |-> {"2025-03-03T00:00:00Z"},
                Description |-> {NewOptNilString("d1"), OptNil("")},
                UserinfoURL |-> {NewOptNilString("https://idp/me")},
                IconURL |-> {NewOptNilString("https://idp/icon")},
                HomepageURL |-> {NewOptNilString("https://idp")},
                DefaultScopes |-> {<<"read">>},
                SupportedGrantTypes |-> {<<"authorization_code">>}])


(***************************************************************************)
(* The state machine.                                                      *)
(***************************************************************************)
Kinds == {"environment", "mcp_endpoint", "model_provider", "model", "oauth_service",
          "discovery_provider", "chat_suggestion"}

\* A provider block with host and token set and the environment selector
\* left to DEVGRAPH_ENVIRONMENT; any resource type.
Init ==
    /\ config = [Host |-> StringValue("https://api.devgraph.ai"),
                 AccessToken |-> StringValue("tok"), Environment |-> Null]
    /\ osEnv = [DEVGRAPH_HOST |-> "", DEVGRAPH_ACCESS_TOKEN |-> "",
                DEVGRAPH_ENVIRONMENT |-> "my-org-slug"]
    /\ provider = NotConfigured
    /\ client = NoClient
    /\ pc = "start"
    /\ kind \in Kinds
    /\ tfstate = NoState
    /\ op = "none" /\ plan = NoPlan /\ prior = NoState
    /\ req = NoReq /\ resp = NoResp /\ calls = 0 /\ header = NoHeader
    /\ diags = <<>> /\ wrote = "none"
    /\ nOps = 0

ProviderConfigure ==
    /\ pc = "start"
    /\ provider' = DevgraphProviderConfigure(config, osEnv)
    /\ pc' = "provider_configured"
    /\ UNCHANGED <<config, osEnv, client, kind,
                   tfstate, op, plan, prior, req, resp, calls, header, diags, wrote, nOps>>

\* the framework hands the provider's ResourceData to the resource; no
\* handler runs on a resource whose Configure recorded an error
Configure ==
    /\ pc = "provider_configured"
    /\ client' = ResourceConfigure(client, provider.ResourceData).client
    /\ diags' = ResourceConfigure(client, provider.ResourceData).diags
    /\ pc' = IF diags' = <<>> THEN "ready" ELSE "failed"
    /\ UNCHANGED <<config, osEnv, provider, kind,
                   tfstate, op, plan, prior, req, resp, calls, header, wrote, nOps>>

Ready(k) == pc = "ready" /\ kind = k /\ nOps < MaxOps

\* a handler that drops the client handle when it records an error
Invoke_DropsClient(name, p, s, res, out) ==
    LET o == IF out.calls > 0 /\ client = NoClient THEN NilClientPanic ELSE out
    IN  /\ op' = name
        /\ plan' = p
        /\ prior' = s
        /\ req' = o.req
        /\ resp' = IF o.calls = 0 THEN NoResp ELSE res
        /\ calls' = o.calls
        /\ header' = IF o.calls = 0 THEN NoHeader
                     ELSE RoundTrip(client, RequestHeader(client))
        /\ diags' = o.diags
        /\ wrote' = o.wrote
        /\ tfstate' = IF o.wrote = "set" THEN o.state
                      ELSE IF o.wrote = "removed" THEN NoState
                      ELSE IF name = "Delete" /\ o.diags = <<>> THEN NoState
                      ELSE tfstate
        /\ nOps' = IF name = "Import" THEN nOps ELSE nOps + 1
        /\ client' = IF o.diags # <<>> THEN NoClient ELSE client
        /\ UNCHANGED <<config, osEnv, provider, pc, kind>>

\* A handler ran with plan p, prior state s and remote answer res (received
\* only if it made the call) and ended as out.  The framework keeps the
\* prior state unless the handler set or removed it, and removes the state
\* after a Delete that recorded no error.
Invoke(name, p, s, res, out) ==
    LET o == IF out.calls > 0 /\ client = NoClient THEN NilClientPanic ELSE out
    IN  /\ op' = name
        /\ plan' = p
        /\ prior' = s
        /\ req' = o.req
        /\ resp' = IF o.calls = 0 THEN NoResp ELSE res
        /\ calls' = o.calls
        /\ header' = IF o.calls = 0 THEN NoHeader
                     ELSE RoundTrip(client, RequestHeader(client))
        /\ diags' = o.diags
        /\ wrote' = o.wrote
        /\ tfstate' = IF o.wrote = "set" THEN o.state
                      ELSE IF o.wrote = "removed" THEN NoState
                      ELSE IF name = "Delete" /\ o.diags = <<>> THEN NoState
                      ELSE tfstate
        /\ nOps' = IF name = "Import" THEN nOps ELSE nOps + 1
        /\ UNCHANGED <<config, osEnv, provider, client, pc, kind>>

DeleteAnswers == {CallError, [T |-> "DeleteOK"]}

\* identifiers a user may hand to terraform import: a UUID in canonical
\* text, the same UUID in upper case, and a name
ImportIDs == {"uuid-1", "UUID-1", "m1"}

\* the ImportState method of the configured resource type
ResourceImportState(k, id) ==
    CASE k = "model_provider" -> ModelProviderResource_ImportState(id)
      [] k = "chat_suggestion" -> ChatSuggestionResource_ImportState(id)
      [] k = "environment" -> EnvironmentResource_ImportState(id)
      [] k = "model" -> ModelResource_ImportState(id)
      [] k = "discovery_provider" -> DiscoveryProviderResource_ImportState(id)
      [] k = "mcp_endpoint" -> MCPEndpointResource_ImportState(id)
      [] k = "oauth_service" -> OAuthServiceResource_ImportState(id)

\* the state holds nothing but an imported identifier: Terraform keeps an
\* import only once the Read that follows it has succeeded, so no Update or
\* Delete is planned from such a state
Unrefreshed == \E id \in ImportIDs : tfstate = ResourceImportState(kind, id).state

\* terraform import of an instance that is not in state: the resource type's
\* ImportState; Terraform follows it with a Read before any other handler
ImportState ==
    /\ pc = "ready" /\ nOps < MaxOps /\ tfstate = NoState
    /\ \E id \in ImportIDs :
          Invoke("Import", [ID |-> id], NoState, NoResp, ResourceImportState(kind, id))

ModelProviderCreate ==
    /\ Ready("model_provider") /\ tfstate = NoState
    /\ \E p \in (Variations(ModelProviderBasePlan,
                 [Type |-> {StringValue("openai"), StringValue("xai"), StringValue("azure")},
                  Name |-> {StringValue("p2")},
                  APIKey |-> {StringValue("k2")},
                  Default |-> {BoolValue(TRUE)}])),
          res \in ModelProviderResponses \cup {CallError, OtherResponse} :
          Invoke("Create", p, NoState, res, ModelProviderResource_Create(p, res))

ModelProviderRead ==
    /\ Ready("model_provider") /\ tfstate # NoState
    /\ \E res \in ModelProviderResponses \cup {CallError, NotFound, OtherResponse} :
          Invoke("Read", NoPlan, tfstate, res, ModelProviderResource_Read(tfstate, res))

\* Plans of an Update: the prior state with one configurable field changed.
\* The schema does not mark type as forcing replacement, so it may change.
ModelProviderUpdate ==
    /\ Ready("model_provider") /\ tfstate # NoState /\ ~Unrefreshed
    /\ \E p \in (Variations(tfstate, [Type |-> {StringValue("openai"), StringValue("anthropic")},
                 Name |-> {StringValue("p1"), StringValue("p2")},
                 APIKey |-> {StringValue("k1"), StringValue("k2")},
                 Default |-> {BoolValue(TRUE), BoolValue(FALSE)}])),
          res \in ModelProviderResponses \cup {CallError, OtherResponse} :
          Invoke("Update", p, tfstate, res, ModelProviderResource_Update(p, tfstate, res))

ModelProviderDelete ==
    /\ Ready("model_provider") /\ tfstate # NoState /\ ~Unrefreshed
    /\ \E res \in DeleteAnswers :
          Invoke("Delete", NoPlan, tfstate, res, ModelProviderResource_Delete(tfstate, res))

ChatSuggestionCreate ==
    /\ Ready("chat_suggestion") /\ tfstate = NoState
    /\ \E p \in (Variations(ChatSuggestionBasePlan,
                 [Title |-> {StringValue("t2")}, Label |-> {StringValue("l2")},
                 Action |-> {StringValue("a2")}, Active |-> {BoolValue(FALSE)}])),
          res \in ChatSuggestionResponses \cup {CallError, OtherResponse} :
          Invoke("Create", p, NoState, res, ChatSuggestionResource_Create(p, res))

\* list responses: the instance's entry (as created, or changed remotely) and
\* another instance's entry, in any order, or neither
ChatSuggestionRead ==
    /\ Ready("chat_suggestion") /\ tfstate # NoState
    /\ \E res \in ({[T |-> "ListChatSuggestionsOKApplicationJSON", items |-> l] :
                   l \in SeqsUpTo(ChatSuggestionResponses, MaxLen)})
                 \cup {CallError, OtherResponse} :
          Invoke("Read", NoPlan, tfstate, res, ChatSuggestionResource_Read(tfstate, res))

ChatSuggestionUpdate ==
    /\ Ready("chat_suggestion") /\ tfstate # NoState /\ ~Unrefreshed
    /\ \E p \in (Variations(tfstate, [Title |-> {StringValue("t1"), StringValue("t2")},
                 Label |-> {StringValue("l2")}, Action |-> {StringValue("a2")},
                 Active |-> {BoolValue(TRUE), BoolValue(FALSE)}])),
          res \in ChatSuggestionResponses \cup {CallError, OtherResponse} :
          Invoke("Update", p, tfstate, res, ChatSuggestionResource_Update(p, tfstate, res))

ChatSuggestionDelete ==
    /\ Ready("chat_suggestion") /\ tfstate # NoState /\ ~Unrefreshed
    /\ \E res \in DeleteAnswers :
          Invoke("Delete", NoPlan, tfstate, res, ChatSuggestionResource_Delete(tfstate, res))

EnvironmentCreate ==
    /\ Ready("environment") /\ tfstate = NoState
    /\ \E p \in (Variations(EnvironmentBasePlan,
                 [Name |-> {StringValue("e2")},
                 InvitedUsers |-> ListsOf({"u1@x", "u2@x"}),
                 StripeSubscriptionID |-> {StringValue("sub_2")},
                 InstanceURL |-> {StringValue("https://e2.devgraph.ai")}])),
          res \in EnvironmentResponses \cup {CallError, OtherResponse} :
          Invoke("Create", p, NoState, res, EnvironmentResource_Create(p, res))

EnvironmentRead ==
    /\ Ready("environment") /\ tfstate # NoState
    /\ \E res \in ({[T |-> "GetEnvironmentsOKApplicationJSON", items |-> l] :
                   l \in SeqsUpTo(EnvironmentResponses, MaxLen)})
                 \cup {CallError, OtherResponse} :
          Invoke("Read", NoPlan, tfstate, res, EnvironmentResource_Read(tfstate, res))

EnvironmentUpdate ==
    /\ Ready("environment") /\ tfstate # NoState /\ ~Unrefreshed
    /\ \E p \in (Variations(tfstate, [Name |-> {StringValue("e1"), StringValue("e2")},
                 InvitedUsers |-> {ListValueMust(<<>>), ListValueMust(<<"u1@x">>)},
                 StripeSubscriptionID |-> {StringValue("sub_2")},
                 InstanceURL |-> {StringValue("https://e2.devgraph.ai")}])),
          res \in EnvironmentResponses \cup {CallError, OtherResponse} :
          Invoke("Update", p, tfstate, res, EnvironmentResource_Update(p, tfstate, res))

EnvironmentDelete ==
    /\ Ready("environment") /\ tfstate # NoState /\ ~Unrefreshed
    /\ \E res \in DeleteAnswers :
          Invoke("Delete", NoPlan, tfstate, res, EnvironmentResource_Delete(tfstate, res))

ModelCreate ==
    /\ Ready("model") /\ tfstate = NoState
    /\ \E p \in (Variations(ModelBasePlan,
                 [Name |-> {StringValue("m2")},
                 Description |-> {Null, StringValue("d2")},
                 ProviderID |-> {StringValue("uuid-2"), StringValue("UUID-1"),
                 StringValue("not-a-uuid")},
                 Default |-> {BoolValue(TRUE)}])),
          res \in ModelResponses \cup {CallError, OtherResponse} :
          Invoke("Create", p, NoState, res, ModelResource_Create(p, res))

ModelRead ==
    /\ Ready("model") /\ tfstate # NoState
    /\ \E res \in ModelResponses \cup {CallError, NotFound, OtherResponse} :
          Invoke("Read", NoPlan, tfstate, res, ModelResource_Read(tfstate, res))

ModelUpdate ==
    /\ Ready("model") /\ tfstate # NoState /\ ~Unrefreshed
    /\ \E p \in (Variations(tfstate, [Name |-> {StringValue("m1"), StringValue("m2")},
                 Description |-> {Null, StringValue("d1"), StringValue("d2")},
                 ProviderID |-> {StringValue("uuid-1"), StringValue("uuid-2"),
                 StringValue("not-a-uuid")},
                 Default |-> {BoolValue(TRUE), BoolValue(FALSE)}])),
          res \in ModelResponses \cup {CallError, OtherResponse} :
          Invoke("Update", p, tfstate, res, ModelResource_Update(p, tfstate, res))

ModelDelete ==
    /\ Ready("model") /\ tfstate # NoState /\ ~Unrefreshed
    /\ \E res \in DeleteAnswers :
          Invoke("Delete", NoPlan, tfstate, res, ModelResource_Delete(tfstate, res))

DiscoveryProviderCreate ==
    /\ Ready("discovery_provider") /\ tfstate = NoState
    /\ \E p \in (Variations(DiscoveryProviderBasePlan,
                 [Name |-> {StringValue("GitHub Staging")},
                 ProviderType |-> {StringValue("gitlab")},
                 Enabled |-> {BoolValue(FALSE)},
                 Interval |-> {Int64Value(60)},
                 Config |-> {StringValue(c) : c \in ConfigStrings}])),
          res \in DiscoveryProviderResponses \cup {CallError, NotFound, OtherResponse} :
          Invoke("Create", p, NoState, res, DiscoveryProviderResource_Create(p, res))

DiscoveryProviderRead ==
    /\ Ready("discovery_provider") /\ tfstate # NoState
    /\ \E res \in DiscoveryProviderResponses \cup {CallError, NotFound, OtherResponse} :
          Invoke("Read", NoPlan, tfstate, res, DiscoveryProviderResource_Read(tfstate, res))

\* provider_type forces replacement, so an Update's plan keeps the state's
DiscoveryProviderUpdate ==
    /\ Ready("discovery_provider") /\ tfstate # NoState /\ ~Unrefreshed
    /\ \E p \in (Variations(tfstate,
                 [Name |-> {StringValue("GitHub Production"), StringValue("GitHub Staging")},
                 Enabled |-> {BoolValue(TRUE), BoolValue(FALSE)},
                 Interval |-> {Int64Value(DefaultInterval), Int64Value(60)},
                 Config |-> {StringValue(c) : c \in ConfigStrings}])),
          res \in DiscoveryProviderResponses \cup {CallError, NotFound, OtherResponse} :
          Invoke("Update", p, tfstate, res, DiscoveryProviderResource_Update(p, tfstate, res))

DiscoveryProviderDelete ==
    /\ Ready("discovery_provider") /\ tfstate # NoState /\ ~Unrefreshed
    /\ \E res \in DeleteAnswers :
          Invoke("Delete", NoPlan, tfstate, res, DiscoveryProviderResource_Delete(tfstate, res))

MCPEndpointCreate ==
    /\ Ready("mcp_endpoint") /\ tfstate = NoState
    /\ \E p \in (Variations(MCPEndpointBasePlan,
                 [Name |-> {StringValue("mcp2")},
                 URL |-> {StringValue("https://mcp2/v1")},
                 Description |-> {Null, StringValue("d2")},
                 Headers |-> {MapValueMust({}), MapValueMust({<<"X-Custom-Header", "value">>})},
                 DevgraphAuth |-> {BoolValue(TRUE)},
                 SupportsResources |-> {BoolValue(TRUE)},
                 OAuthServiceID |-> {StringValue("uuid-2"), StringValue("not-a-uuid")},
                 Immutable |-> {BoolValue(TRUE)},
                 Active |-> {BoolValue(FALSE)},
                 AllowedTools |-> ListsOf({"tool1"}),
                 DeniedTools |-> ListsOf({"tool1"})])),
          res \in MCPEndpointResponses \cup {CallError, OtherResponse} :
          Invoke("Create", p, NoState, res, MCPEndpointResource_Create(p, res))

MCPEndpointRead ==
    /\ Ready("mcp_endpoint") /\ tfstate # NoState
    /\ \E res \in MCPEndpointResponses \cup {CallError, NotFound, OtherResponse} :
          Invoke("Read", NoPlan, tfstate, res, MCPEndpointResource_Read(tfstate, res))

MCPEndpointUpdate ==
    /\ Ready("mcp_endpoint") /\ tfstate # NoState /\ ~Unrefreshed
    /\ \E p \in (Variations(tfstate, [Name |-> {StringValue("mcp1"), StringValue("mcp2")},
                 URL |-> {StringValue("https://mcp2/v1")},
                 Description |-> {Null, StringValue("d1"), StringValue("d2")},
                 Headers |-> {MapValueMust({}), MapValueMust({<<"X-Custom-Header", "value">>})},
                 DevgraphAuth |-> {BoolValue(TRUE), BoolValue(FALSE)},
                 SupportsResources |-> {BoolValue(TRUE)},
                 OAuthServiceID |-> {Null, StringValue("uuid-2"), StringValue("not-a-uuid")},
                 Immutable |-> {BoolValue(TRUE)},
                 Active |-> {BoolValue(FALSE)},
                 AllowedTools |-> {Null} \cup ListsOf({"tool1"}),
                 DeniedTools |-> ListsOf({"tool1"})])),
          res \in MCPEndpointResponses \cup {CallError, OtherResponse} :
          Invoke("Update", p, tfstate, res, MCPEndpointResource_Update(p, tfstate, res))

MCPEndpointDelete ==
    /\ Ready("mcp_endpoint") /\ tfstate # NoState /\ ~Unrefreshed
    /\ \E res \in DeleteAnswers :
          Invoke("Delete", NoPlan, tfstate, res, MCPEndpointResource_Delete(tfstate, res))

OAuthServiceCreate ==
    /\ Ready("oauth_service") /\ tfstate = NoState
    /\ \E p \in (Variations(OAuthServiceBasePlan,
                 [Name |-> {StringValue("gitlab")},
                 DisplayName |-> {StringValue("GitLab")},
                 Description |-> {StringValue("d1")},
                 ClientID |-> {StringValue("cid2")},
                 ClientSecret |-> {StringValue("s2")},
                 AuthorizationURL |-> {StringValue("HTTPS://idp/auth"), StringValue(MalformedURL)},
                 TokenURL |-> {StringValue(MalformedURL)},
                 UserinfoURL |-> {StringValue("https://idp/me"), StringValue(MalformedURL)},
                 DefaultScopes |-> ListsOf({"read"}),
                 SupportedGrantTypes |-> {ListValueMust(<<"authorization_code">>)},
                 IsActive |-> {BoolValue(FALSE)},
                 IconURL |-> {StringValue(MalformedURL)},
                 HomepageURL |-> {StringValue("https://idp"), StringValue(MalformedURL)}])),
          res \in OAuthServiceResponses \cup {CallError, OtherResponse} :
          Invoke("Create", p, NoState, res, OAuthServiceResource_Create(p, res))

OAuthServiceRead ==
    /\ Ready("oauth_service") /\ tfstate # NoState
    /\ \E res \in OAuthServiceResponses \cup {CallError, NotFound, OtherResponse} :
          Invoke("Read", NoPlan, tfstate, res, OAuthServiceResource_Read(tfstate, res))

\* name forces replacement, so an Update's plan keeps the state's; id and
\* created_at keep the state's value and updated_at is unknown until applied
OAuthServiceUpdate ==
    /\ Ready("oauth_service") /\ tfstate # NoState /\ ~Unrefreshed
    /\ \E p \in (Variations([tfstate EXCEPT !.UpdatedAt = Unknown],
                 [DisplayName |-> {StringValue("GitHub"), StringValue("GitLab")},
                 Description |-> {Null, StringValue("d1")},
                 ClientID |-> {StringValue("cid2")},
                 ClientSecret |-> {StringValue("s1"), StringValue("s2")},
                 AuthorizationURL |-> {StringValue(MalformedURL)},
                 TokenURL |-> {StringValue("https://idp/token2"), StringValue(MalformedURL)},
                 UserinfoURL |-> {Null, StringValue("https://idp/me"), StringValue(MalformedURL)},
                 DefaultScopes |-> ListsOf({"read"}),
                 IsActive |-> {BoolValue(FALSE)},
                 IconURL |-> {StringValue("https://idp/icon"), StringValue(MalformedURL)},
                 HomepageURL |-> {StringValue(MalformedURL)}])),
          res \in OAuthServiceResponses \cup {CallError, OtherResponse} :
          Invoke("Update", p, tfstate, res, OAuthServiceResource_Update(p, tfstate, res))

OAuthServiceDelete ==
    /\ Ready("oauth_service") /\ tfstate # NoState /\ ~Unrefreshed
    /\ \E res \in DeleteAnswers :
          Invoke("Delete", NoPlan, tfstate, res, OAuthServiceResource_Delete(tfstate, res))

Next ==
    \/ ProviderConfigure
    \/ Configure
    \/ ModelCreate
    \/ ModelRead
    \/ ModelUpdate
    \/ ModelDelete
    \/ DiscoveryProviderCreate
    \/ DiscoveryProviderRead
    \/ DiscoveryProviderUpdate
    \/ DiscoveryProviderDelete
    \/ MCPEndpointCreate
    \/ MCPEndpointRead
    \/ MCPEndpointUpdate
    \/ MCPEndpointDelete
    \/ OAuthServiceCreate
    \/ OAuthServiceRead
    \/ OAuthServiceUpdate
    \/ OAuthServiceDelete
    \/ ModelProviderCreate
    \/ ModelProviderRead
    \/ ModelProviderUpdate
    \/ ModelProviderDelete
    \/ ChatSuggestionCreate
    \/ ChatSuggestionRead
    \/ ChatSuggestionUpdate
    \/ ChatSuggestionDelete
    \/ EnvironmentCreate
    \/ EnvironmentRead
    \/ EnvironmentUpdate
    \/ EnvironmentDelete
    \/ ImportState

Spec == Init /\ [][Next]_vars

(***************************************************************************)
(* The provider block and the process environment in their combinations.   *)
(* host and access_token, and the variables behind them, take every        *)
(* combination of values; the environment selector and its variable take   *)
(* every combination under a host and a token that are set.                *)
(***************************************************************************)
ProviderInputs ==
    {[config |-> [Host |-> h, AccessToken |-> t, Environment |-> Null],
      osEnv |-> [DEVGRAPH_HOST |-> eh, DEVGRAPH_ACCESS_TOKEN |-> et,
                 DEVGRAPH_ENVIRONMENT |-> "my-org-slug"]] :
        h \in {Null, Unknown, StringValue(""), StringValue("https://api.devgraph.ai"),
               StringValue(MalformedURL)},
        t \in {Null, StringValue(""), StringValue("tok")},
        eh \in {"", "https://env.devgraph.ai"}, et \in {"", "envtok"}}
    \cup
    {[config |-> [Host |-> StringValue("https://api.devgraph.ai"),
                  AccessToken |-> StringValue("tok"), Environment |-> e],
      osEnv |-> [DEVGRAPH_HOST |-> "", DEVGRAPH_ACCESS_TOKEN |-> "",
                 DEVGRAPH_ENVIRONMENT |-> ee]] :
        e \in {Null, StringValue(""), StringValue("staging")}, ee \in {"", "my-org-slug"}}

\* the state an earlier apply left for an instance of each resource type
PriorApplyState(k) ==
    CASE k = "model_provider" ->
           ModelProviderResource_Create(ModelProviderBasePlan,
               ModelProviderResponse("AnthropicModelProviderResponse",
                                     ModelProviderBasePayload)).state
      [] k = "chat_suggestion" ->
           ChatSuggestionResource_Create(ChatSuggestionBasePlan, ChatSuggestionBaseItem).state
      [] k = "environment" ->
           EnvironmentResource_Create(EnvironmentBasePlan, EnvironmentBaseItem).state
      [] k = "model" -> ModelResource_Create(ModelBasePlan, ModelBaseResponse).state
      [] k = "discovery_provider" ->
           DiscoveryProviderResource_Create(DiscoveryProviderBasePlan,
                                            DiscoveryProviderBaseResponse).state
      [] k = "mcp_endpoint" ->
           MCPEndpointResource_Create(MCPEndpointBasePlan, MCPEndpointBaseResponse).state
      [] k = "oauth_service" ->
           OAuthServiceResource_Create(OAuthServiceBasePlan, OAuthServiceBaseResponse).state

\* Any provider input; an instance that is new or was created by an earlier
\* apply.  Lifecycles behind a working client are followed for
\* devgraph_model_provider, those behind a failed configuration for every
\* resource type.
InitProvider ==
    /\ \E in \in ProviderInputs : config = in.config /\ osEnv = in.osEnv
    /\ provider = NotConfigured
    /\ client = NoClient
    /\ pc = "start"
    /\ kind \in IF DevgraphProviderConfigure(config, osEnv).ResourceData = NoClient
                THEN Kinds ELSE {"model_provider"}
    /\ tfstate \in {NoState, PriorApplyState(kind)}
    /\ op = "none" /\ plan = NoPlan /\ prior = NoState
    /\ req = NoReq /\ resp = NoResp /\ calls = 0 /\ header = NoHeader
    /\ diags = <<>> /\ wrote = "none"
    /\ nOps = 0

SpecProvider == InitProvider /\ [][Next]_vars

(***************************************************************************)
(* Resource Configure on each kind of provider data.  The type assertion   *)
(* in Configure distinguishes nil, a *v1.Client and a value of any other   *)
(* type; this provider only ever leaves the first two in ResourceData, so  *)
(* the third is supplied here as the framework would pass it on.           *)
(***************************************************************************)
WrongTypeData == [T |-> "string"]

InitConfigure ==
    \/ Init
    \/ /\ config = [Host |-> StringValue("https://api.devgraph.ai"),
                    AccessToken |-> StringValue("tok"), Environment |-> Null]
       /\ osEnv = [DEVGRAPH_HOST |-> "", DEVGRAPH_ACCESS_TOKEN |-> "",
                   DEVGRAPH_ENVIRONMENT |-> "my-org-slug"]
       /\ \E d \in {NoClient, WrongTypeData, DevgraphProviderConfigure(config, osEnv).ResourceData} :
             provider = [DevgraphProviderConfigure(config, osEnv) EXCEPT !.ResourceData = d]
       /\ client = NoClient
       /\ pc = "provider_configured"
       /\ kind \in Kinds
       /\ tfstate = NoState
       /\ op = "none" /\ plan = NoPlan /\ prior = NoState
       /\ req = NoReq /\ resp = NoResp /\ calls = 0 /\ header = NoHeader
       /\ diags = <<>> /\ wrote = "none"
       /\ nOps = 0

SpecConfigure == InitConfigure /\ [][Next]_vars

(***************************************************************************)
(* Properties.                                                             *)
(***************************************************************************)
\* the attributes of a resource type that have a field in its update request
UpdateRequestFields(k) ==
    CASE k = "mcp_endpoint" ->
           {"Name", "URL", "Description", "Headers", "DevgraphAuth", "SupportsResources",
            "Immutable", "Active", "OAuthServiceID", "AllowedTools", "DeniedTools"}
      [] k = "oauth_service" ->
           {"DisplayName", "ClientID", "ClientSecret", "AuthorizationURL", "TokenURL",
            "Description", "DefaultScopes", "SupportedGrantTypes", "UserinfoURL",
            "IsActive", "IconURL", "HomepageURL"}
      [] k = "model" -> {"Description", "ProviderID", "Default"}
      [] k = "model_provider" -> {"Name", "APIKey", "Default"}
      [] k = "discovery_provider" -> {"Name", "Enabled", "Interval", "Config"}
      [] OTHER -> {}

\* the attributes a configuration can change without replacing the instance
UpdatableFields(k) ==
    UpdateRequestFields(k)
        \cup (IF k = "model" THEN {"Name"} ELSE IF k = "model_provider" THEN {"Type"} ELSE {})

\* an Update that sent its request
UpdateSent == op = "Update" /\ calls = 1

\* C1: after a successful Create, Read or Update of a model provider or an
\* OAuth service, the secret attribute in state (api_key, client_secret)
\* equals the value supplied locally: the plan's on Create and Update, the
\* prior state's on Read, whatever the response carries for it.
C1_SecretKeepsLocalValue ==
    (wrote = "set" /\ op \in {"Create", "Read", "Update"}
       /\ kind \in {"model_provider", "oauth_service"}) =>
        LET supplied == IF op = "Read" THEN prior ELSE plan
        IN  IF kind = "model_provider" THEN tfstate.APIKey = supplied.APIKey
            ELSE tfstate.ClientSecret = supplied.ClientSecret

\* C2: in an Update, a field whose planned value equals its prior-state
\* value is omitted from the update request.
C2_UnchangedFieldsOmitted ==
    UpdateSent =>
        \A f \in UpdateRequestFields(kind) : Equal(plan[f], prior[f]) => ~req[f].Set

\* C3: in an Update, every attribute whose planned value differs from its
\* prior-state value is present in the update request, a change to null and
\* a change of a model's name or a model provider's type included.
C3_ChangedFieldsPresent ==
    UpdateSent =>
        \A f \in UpdatableFields(kind) :
            ~Equal(plan[f], prior[f]) => (f \in UpdateRequestFields(kind) /\ req[f].Set)

\* C4: in an Update, a changed field whose planned value is null is encoded
\* in the request as explicit null: neither omitted nor set to a value.
C4_NullPlanEncodedAsNull ==
    UpdateSent =>
        \A f \in UpdateRequestFields(kind) :
            (~Equal(plan[f], prior[f]) /\ IsNull(plan[f])) => (req[f].Set /\ req[f].Null)

\* the attributes that hold a secret
SecretFields(k) ==
    IF k = "model_provider" THEN {"APIKey"}
    ELSE IF k = "oauth_service" THEN {"ClientSecret"} ELSE {}

\* the resource types read through a list endpoint
ListRead(k) == k \in {"environment", "chat_suggestion"}

\* the answer to the next Read carries the values the Create response
\* carried: the same response, or a list whose entries with the created id
\* are that response
RemoteUnchanged ==
    IF ListRead(kind)
    THEN /\ resp'.T \in {"GetEnvironmentsOKApplicationJSON", "ListChatSuggestionsOKApplicationJSON"}
         /\ \E i \in 1..Len(resp'.items) : resp'.items[i] = resp
         /\ \A i \in 1..Len(resp'.items) :
               resp'.items[i].ID = resp.ID => resp'.items[i] = resp
    ELSE resp' = resp

\* C5: if Create succeeds and a Read follows immediately while the remote
\* object is unchanged, the state written by Read equals the state written
\* by Create on every non-secret attribute.
C5_ReadAfterCreateKeepsState ==
    [][(op = "Create" /\ wrote = "set" /\ op' = "Read" /\ wrote' = "set" /\ RemoteUnchanged)
          => \A f \in (DOMAIN tfstate) \ SecretFields(kind) : tfstate'[f] = tfstate[f]]_vars

\* a Read that followed a successful Create of an OAuth service and met the
\* values Create had stored, a null description among them
C5_Witness ==
    /\ kind = "oauth_service" /\ nOps = 2 /\ op = "Read" /\ wrote = "set"
    /\ resp.Description.Null /\ resp.DefaultScopes # <<>>
    /\ OAuthServiceFromResponse(prior, resp, TRUE) = prior
    /\ tfstate = prior

\* two identifier texts name the same object: the same UUID whatever its
\* spelling, or the same text
SameID(a, b) ==
    IF ~UUIDParse(a).err /\ ~UUIDParse(b).err THEN UUIDParse(a).id = UUIDParse(b).id
    ELSE a = b

\* the stored identifier is not in the Read's answer: a typed not-found
\* response, or a list without an entry of that id
RemotelyMissing ==
    /\ op = "Read" /\ calls = 1
    /\ IF ListRead(kind)
       THEN /\ resp.T \in {"GetEnvironmentsOKApplicationJSON",
                           "ListChatSuggestionsOKApplicationJSON"}
            /\ \A i \in 1..Len(resp.items) : ~SameID(resp.items[i].ID, ValueString(prior.ID))
       ELSE resp = NotFound

\* C6: a Read of an instance whose identifier no longer exists remotely
\* removes the resource from state and records no error diagnostic.
C6_ReadOfMissingRemoves ==
    RemotelyMissing => (wrote = "removed" /\ tfstate = NoState /\ diags = <<>>)

\* an environment dropped from state because the list had other entries only
C6_Witness ==
    /\ kind = "environment" /\ RemotelyMissing /\ Len(resp.items) > 0
    /\ wrote = "removed" /\ tfstate = NoState

\* the handlers of operations the API does not offer
UnsupportedOperation ==
    \/ kind = "environment" /\ op \in {"Update", "Delete"}
    \/ kind = "chat_suggestion" /\ op = "Update"

\* C7: EnvironmentResource.Update, EnvironmentResource.Delete and
\* ChatSuggestionResource.Update always record the same fixed error, make no
\* remote call and write no state, whatever the plan and the prior state.
C7_UnsupportedOperationsFail ==
    UnsupportedOperation =>
        /\ diags = <<IF op = "Delete" THEN "Delete not supported" ELSE "Update not supported">>
        /\ calls = 0 /\ req = NoReq
        /\ wrote = "none" /\ tfstate = prior

\* a Delete of an environment that is in state
C7_Witness ==
    /\ kind = "environment" /\ op = "Delete" /\ prior # NoState
    /\ diags = <<"Delete not supported">> /\ tfstate = prior

\* the operation met a string that does not parse as what it encodes: the
\* discovery provider's config (in Update only when changed), one of the
\* OAuth service's URLs, a UUID in the plan, or the stored identifier
ParseFailure ==
    LET badURL(x) == ~IsNull(x) /\ URLParse(ValueString(x)).err
        badUUID(x) == UUIDParse(ValueString(x)).err
        fromPlan ==
            CASE kind = "discovery_provider" ->
                   /\ op = "Create" \/ ~Equal(plan.Config, prior.Config)
                   /\ JSONUnmarshalObject(ValueString(plan.Config)).err
              [] kind = "oauth_service" ->
                   \E f \in {"AuthorizationURL", "TokenURL", "UserinfoURL", "IconURL",
                             "HomepageURL"} : badURL(plan[f])
              [] kind = "model" ->
                   /\ op = "Create" \/ ~Equal(plan.ProviderID, prior.ProviderID)
                   /\ badUUID(plan.ProviderID)
              [] kind = "mcp_endpoint" ->
                   ~IsNull(plan.OAuthServiceID) /\ badUUID(plan.OAuthServiceID)
              [] OTHER -> FALSE
        storedID ==
            /\ kind \notin {"environment", "model"}
            /\ badUUID(prior.ID)
    IN  \/ op \in {"Create", "Update"} /\ fromPlan
        \/ op \in {"Read", "Update", "Delete"} /\ ~UnsupportedOperation /\ storedID

\* C8: when a string that encodes structured data fails to parse, the
\* operation records an error diagnostic, makes no remote call and writes no
\* state.
C8_ParseFailureAborts ==
    ParseFailure =>
        (diags # <<>> /\ calls = 0 /\ req = NoReq /\ wrote = "none" /\ tfstate = prior)

\* a Create of a discovery provider whose config is not JSON
C8_Witness ==
    /\ kind = "discovery_provider" /\ op = "Create"
    /\ plan.Config = StringValue("{bad")
    /\ diags = <<"Invalid Config JSON">> /\ calls = 0 /\ tfstate = NoState

\* what a setting resolves to: the configured value when the configuration
\* sets one, a non-null value that is not known counting as empty, and the
\* environment variable when the configuration leaves it null
Setting(configValue, envValue) ==
    CASE configValue.k = "null" -> envValue
      [] configValue.k = "value" -> configValue.v
      [] configValue.k = "unknown" -> ""

\* C9: provider Configure resolves host, access_token and environment to the
\* configured value when it is not null, and to DEVGRAPH_HOST,
\* DEVGRAPH_ACCESS_TOKEN and DEVGRAPH_ENVIRONMENT otherwise; the client it
\* builds carries the resolved token and environment.
C9_SettingsResolved ==
    provider.ran =>
        /\ provider.resolved.host = Setting(config.Host, osEnv.DEVGRAPH_HOST)
        /\ provider.resolved.accessToken
              = Setting(config.AccessToken, osEnv.DEVGRAPH_ACCESS_TOKEN)
        /\ provider.resolved.environment
              = Setting(config.Environment, osEnv.DEVGRAPH_ENVIRONMENT)
        /\ provider.ResourceData # NoClient =>
              /\ provider.ResourceData.token = provider.resolved.accessToken
              /\ provider.ResourceData.environment = provider.resolved.environment

\* host taken from DEVGRAPH_HOST and the token from the configuration while
\* DEVGRAPH_ACCESS_TOKEN holds another token
C9_Witness ==
    /\ provider.ran
    /\ IsNull(config.Host) /\ osEnv.DEVGRAPH_HOST # ""
    /\ provider.resolved.host = osEnv.DEVGRAPH_HOST
    /\ config.AccessToken = StringValue("tok") /\ osEnv.DEVGRAPH_ACCESS_TOKEN = "envtok"
    /\ provider.resolved.accessToken = "tok"
    /\ provider.ResourceData # NoClient

\* C10: when the resolved host or the resolved access token is empty,
\* provider Configure records an error for each missing setting and hands no
\* client to resources, and no resource operation issues a remote call; when
\* both are set, an empty environment is no error.
C10_MissingSettingsFail ==
    LET noHost == provider.resolved.host = ""
        noToken == provider.resolved.accessToken = ""
        missing == (IF noHost THEN <<"Missing Devgraph API Host">> ELSE <<>>)
                   \o (IF noToken THEN <<"Missing Devgraph Access Token">> ELSE <<>>)
    IN  provider.ran =>
            /\ (noHost \/ noToken) =>
                  /\ provider.diags = missing
                  /\ provider.ResourceData = NoClient
                  /\ client = NoClient
                  /\ calls = 0 /\ req = NoReq
                  /\ op # "Import" => wrote = "none"
            /\ (~noHost /\ ~noToken /\ provider.resolved.environment = ""
                  /\ ~URLParse(provider.resolved.host).err) =>
                  /\ provider.diags = <<>>
                  /\ provider.ResourceData # NoClient

\* a Read attempted on an instance in state after a Configure that found
\* neither host nor token
C10_Witness ==
    /\ provider.ran /\ pc = "ready"
    /\ provider.resolved.host = "" /\ provider.resolved.accessToken = ""
    /\ Len(provider.diags) = 2
    /\ op = "Read" /\ tfstate # NoState /\ calls = 0

\* C11: when the resolved environment setting is not empty, every request
\* that leaves through the configured client carries the header
\* Devgraph-Environment with exactly that value; when it is empty, no request
\* carries a Devgraph-Environment header.
C11_EnvironmentHeader ==
    calls > 0 =>
        IF provider.resolved.environment # ""
        THEN /\ "Devgraph-Environment" \in DOMAIN header
             /\ header["Devgraph-Environment"] = provider.resolved.environment
        ELSE "Devgraph-Environment" \notin DOMAIN header

\* a request left under a provider block that sets environment = "staging"
\* while DEVGRAPH_ENVIRONMENT names another environment
C11_Witness ==
    /\ calls = 1
    /\ config.Environment = StringValue("staging")
    /\ osEnv.DEVGRAPH_ENVIRONMENT = "my-org-slug"
    /\ header["Devgraph-Environment"] = "staging"
    /\ header["Authorization"] = "Bearer tok"

\* the discriminator and the struct of a provider type in the create request
\* and in the response
VariantOf(t) ==
    CASE t = "openai" -> [create |-> "OpenAIModelProviderCreate",
                          response |-> "OpenAIModelProviderResponse"]
      [] t = "anthropic" -> [create |-> "AnthropicModelProviderCreate",
                             response |-> "AnthropicModelProviderResponse"]
      [] t = "xai" -> [create |-> "XAIModelProviderCreate",
                       response |-> "XAIModelProviderResponse"]

\* C12: a devgraph_model_provider Create with type openai, anthropic or xai
\* sends a request whose discriminator names that variant and whose only
\* populated struct is that variant's, with name, api_key and default from
\* the plan; on a response of a variant the state takes id, type and name
\* from that variant's struct; a Create with any other type records an error
\* and makes no remote call.
C12_VariantSelected ==
    (kind = "model_provider" /\ op = "Create" /\ client # NoClient) =>
        LET t == ValueString(plan.Type)
        IN  IF t \in {"openai", "anthropic", "xai"}
            THEN /\ calls = 1
                 /\ req.Data.Type = VariantOf(t).create
                 /\ req.Data[VariantOf(t).create]
                       = [Type |-> t, Name |-> ValueString(plan.Name),
                          APIKey |-> ValueString(plan.APIKey),
                          Default |-> NewOptBool(ValueBool(plan.Default))]
                 /\ \A u \in {"openai", "anthropic", "xai"} \ {t} :
                       req.Data[VariantOf(u).create] = ZeroCreate
                 /\ \A u \in {"openai", "anthropic", "xai"} :
                       (wrote = "set" /\ resp.Type = VariantOf(u).response) =>
                           /\ tfstate.ID = StringValue(resp[resp.Type].ID)
                           /\ tfstate.Type = StringValue(resp[resp.Type].Type)
                           /\ tfstate.Name = StringValue(resp[resp.Type].Name)
            ELSE calls = 0 /\ req = NoReq /\ diags # <<>> /\ wrote = "none"

\* an xai provider was created and the answer was the xai variant
C12_Witness ==
    /\ kind = "model_provider" /\ op = "Create" /\ wrote = "set"
    /\ plan.Type = StringValue("xai")
    /\ req.Data.Type = "XAIModelProviderCreate"
    /\ resp.Type = "XAIModelProviderResponse"
    /\ tfstate.Type = StringValue("xai") /\ tfstate.ID = StringValue("uuid-1")

\* C13: in devgraph_model_provider Create, Read and Update, a response whose
\* discriminator is none of the three recognised variants is an
\* unexpected-shape error: an error diagnostic is recorded and no state is
\* written.
C13_UnrecognisedVariantIsError ==
    (/\ kind = "model_provider" /\ op \in {"Create", "Read", "Update"}
     /\ calls = 1 /\ resp.T = "ModelProviderResponse"
     /\ resp.Type \notin {"OpenAIModelProviderResponse", "AnthropicModelProviderResponse",
                          "XAIModelProviderResponse"})
        => (diags # <<>> /\ wrote = "none")

\* What a response reports for the non-secret attributes of the record, as
\* attribute values: a required response field reports its value, an optional
\* one reports a value when set, null when explicitly null, and nothing when
\* omitted.  api_key, client_secret and the masked config of a discovery
\* provider are left out.
NotReported == [k |-> "not reported"]
Known(x) == [k |-> "value", v |-> x]
FromOpt(o) == IF o.Set THEN Known(o.Value) ELSE NotReported
FromOptNil(o) == IF ~o.Set THEN NotReported ELSE IF o.Null THEN Null ELSE Known(o.Value)
Reported(k, r) ==
    CASE k = "model_provider" ->
           IF r.Type \in {"OpenAIModelProviderResponse", "AnthropicModelProviderResponse",
                          "XAIModelProviderResponse"}
           THEN [ID |-> Known(r[r.Type].ID), Type |-> Known(r[r.Type].Type),
                 Name |-> Known(r[r.Type].Name), Default |-> FromOpt(r[r.Type].Default)]
           ELSE [ID |-> NotReported]
      [] k = "chat_suggestion" ->
           [ID |-> Known(r.ID), Title |-> Known(r.Title), Label |-> Known(r.Label),
            Action |-> Known(r.Action), Active |-> FromOpt(r.Active)]
      [] k = "environment" ->
           [ID |-> Known(r.ID), Name |-> Known(r.Name), Slug |-> Known(r.Slug),
            ClerkOrganizationID |-> Known(r.ClerkOrganizationID),
            CustomerID |-> Known(r.CustomerID), SubscriptionID |-> Known(r.SubscriptionID)]
      [] k = "model" ->
           [ID |-> Known(r.ID), Name |-> Known(r.Name),
            Description |-> FromOptNil(r.Description),
            ProviderID |-> Known(r.ProviderID), Default |-> FromOpt(r.Default)]
      [] k = "discovery_provider" ->
           [ID |-> Known(r.ID), Name |-> Known(r.Name), ProviderType |-> Known(r.ProviderType),
            Enabled |-> Known(r.Enabled), Interval |-> Known(r.Interval)]
      [] k = "mcp_endpoint" ->
           [ID |-> Known(r.ID), Name |-> Known(r.Name), URL |-> Known(r.URL),
            Description |-> FromOptNil(r.Description), Headers |-> FromOpt(r.Headers),
            DevgraphAuth |-> FromOpt(r.DevgraphAuth),
            SupportsResources |-> FromOpt(r.SupportsResources),
            Immutable |-> FromOpt(r.Immutable), Active |-> FromOpt(r.Active),
            OAuthServiceID |-> FromOptNil(r.OAuthServiceID)]
      [] k = "oauth_service" ->
           [ID |-> Known(r.ID), DisplayName |-> Known(r.DisplayName),
            AuthorizationURL |-> Known(r.AuthorizationURL), TokenURL |-> Known(r.TokenURL),
            IsActive |-> Known(r.IsActive), CreatedAt |-> Known(r.CreatedAt),
            UpdatedAt |-> Known(r.UpdatedAt),
            Description |-> FromOptNil(r.Description),
            UserinfoURL |-> FromOptNil(r.UserinfoURL), IconURL |-> FromOptNil(r.IconURL),
            HomepageURL |-> FromOptNil(r.HomepageURL),
            DefaultScopes |-> Known(r.DefaultScopes),
            SupportedGrantTypes |-> Known(r.SupportedGrantTypes)]

\* C14: after every successful Create or Update, each non-secret field of
\* the persisted record that the response reports equals the response's
\* value, not the planned value.
C14_StateReflectsResponse ==
    (wrote = "set" /\ op \in {"Create", "Update"}) =>
        \A f \in DOMAIN Reported(kind, resp) :
            Reported(kind, resp)[f] # NotReported => tfstate[f] = Reported(kind, resp)[f]

\* the remote representation a successful Read found: the response, or the
\* first entry of the list response that carries the stored id
ReadFound ==
    IF ListRead(kind)
    THEN resp.items[CHOOSE i \in 1..Len(resp.items) :
                        /\ SameID(resp.items[i].ID, ValueString(prior.ID))
                        /\ \A j \in 1..(i - 1) :
                              ~SameID(resp.items[j].ID, ValueString(prior.ID))]
    ELSE resp
\* the attributes a Read has to reflect: those the response reports, without
\* the id the object was addressed by
Reflectable(k) ==
    DOMAIN Reported(k, ReadFound) \ (IF k = "model" THEN {} ELSE {"ID"})
\* the attributes the API obscures or does not echo in usable form
Obscured(k) ==
    SecretFields(k) \cup (IF k = "discovery_provider" THEN {"Config"} ELSE {})

\* C15: a successful Read of a resource that exists remotely sets every
\* field the response reports to the response's value; an optional field the
\* response reports as unset or empty (description, headers,
\* oauth_service_id) does not keep its prior state value; only secret or
\* un-echoed fields are left as they were.
C15_ReadOverwritesReflectable ==
    (wrote = "set" /\ op = "Read") =>
        LET r == ReadFound
            rep == Reported(kind, r)
        IN  /\ \A f \in Reflectable(kind) : rep[f] # NotReported => tfstate[f] = rep[f]
            /\ kind \in {"mcp_endpoint", "model"} =>
                  (~r.Description.Set => IsNull(tfstate.Description))
            /\ kind = "mcp_endpoint" =>
                  /\ (~r.Headers.Set \/ r.Headers.Value = {})
                        => tfstate.Headers \in {Null, MapValueMust({})}
                  /\ (~r.OAuthServiceID.Set \/ r.OAuthServiceID.Null)
                        => IsNull(tfstate.OAuthServiceID)
            /\ \A f \in Obscured(kind) : tfstate[f] = prior[f]

\* the response type each resource's Create asserts
CreateResponseType(k) ==
    CASE k = "model_provider" -> "ModelProviderResponse"
      [] k = "chat_suggestion" -> "ChatSuggestionResponse"
      [] k = "environment" -> "EnvironmentResponse"
      [] k = "model" -> "ModelResponse"
      [] k = "discovery_provider" -> "ConfiguredProviderResponse"
      [] k = "mcp_endpoint" -> "MCPEndpointResponse"
      [] k = "oauth_service" -> "OAuthServiceResponse"

\* C16: in every resource's Create, when the remote call returns an error or
\* a response of an unexpected type, an error diagnostic is recorded, no
\* state is written, and no further remote call (no compensating delete) is
\* issued.
C16_CreateFailureWritesNothing ==
    (op = "Create" /\ resp # NoResp
       /\ (resp = CallError \/ resp.T # CreateResponseType(kind)))
        => /\ diags # <<>>
           /\ wrote = "none" /\ tfstate = NoState
           /\ calls = 1

\* a Create of a discovery provider whose call came back with a response of
\* another type
C16_Witness ==
    /\ kind = "discovery_provider" /\ op = "Create" /\ resp = OtherResponse
    /\ calls = 1 /\ diags = <<"Unexpected response type">>
    /\ wrote = "none" /\ tfstate = NoState

\* C17: in every resource's Read, Update and Delete, when the remote call
\* returns an error, an error diagnostic is recorded, the persisted state is
\* exactly what it was before the operation, and the call is not retried.
C17_CallErrorKeepsState ==
    (op \in {"Read", "Update", "Delete"} /\ resp = CallError)
        => /\ diags # <<>>
           /\ wrote = "none" /\ tfstate = prior /\ tfstate # NoState
           /\ calls = 1

\* the delete call of an MCP endpoint failed
C17_Witness ==
    /\ kind = "mcp_endpoint" /\ op = "Delete" /\ resp = CallError
    /\ diags = <<"Error deleting MCP endpoint">>
    /\ tfstate = prior /\ tfstate # NoState /\ calls = 1

\* C18: every lifecycle call (Create, Read, Update, Delete, Import) of every
\* resource issues at most one remote API call before it returns, whether it
\* succeeds or fails.
C18_AtMostOneCall ==
    op \in {"Create", "Read", "Update", "Delete", "Import"} => calls \in {0, 1}

\* a chat suggestion refreshed from a list of two entries with one call
C18_Witness ==
    /\ kind = "chat_suggestion" /\ op = "Read" /\ wrote = "set"
    /\ resp.T = "ListChatSuggestionsOKApplicationJSON" /\ Len(resp.items) = 2
    /\ calls = 1

\* the attribute that identifies the remote object
IdentifierAttr(k) == IF k = "model" THEN "Name" ELSE "ID"
\* the identifier a request carries in its path
AddressedBy(k, r) ==
    CASE k = "model" -> r.ModelName
      [] k \in {"model_provider", "discovery_provider"} -> r.ProviderID
      [] k = "mcp_endpoint" -> r.McpendpointID
      [] k = "oauth_service" -> r.ServiceID
      [] k = "chat_suggestion" -> r.SuggestionID
\* the identifier of prior state as a request carries it: the name as
\* written, a UUID in canonical text
PriorIdentifier(k) ==
    IF k = "model" THEN ValueString(prior.Name) ELSE UUIDParse(ValueString(prior.ID)).id
\* the response describes the object the request addressed
AboutAddressed ==
    /\ ~ListRead(kind) \/ op # "Read"
    /\ Reported(kind, resp)[IdentifierAttr(kind)] # NotReported
    /\ SameID(ValueString(Reported(kind, resp)[IdentifierAttr(kind)]),
              ValueString(prior[IdentifierAttr(kind)]))

\* C19: Read, Update and Delete address the remote object by the identifier
\* held in prior state (id, or name for devgraph_model): a single-object
\* request carries it and a list Read keeps an entry only when the list has
\* the stored id; and no successful Read or Update changes the identifier
\* value stored in state, even when the response describes that very object.
C19_IdentifierStable ==
    (op \in {"Read", "Update", "Delete"} /\ calls = 1) =>
        /\ IF ListRead(kind) /\ op = "Read"
           THEN wrote = "set" =>
                    \E i \in 1..Len(resp.items) :
                        SameID(resp.items[i].ID, ValueString(prior.ID))
           ELSE AddressedBy(kind, req) = PriorIdentifier(kind)
        /\ (op \in {"Read", "Update"} /\ wrote = "set" /\ resp # CallError /\ AboutAddressed)
              => tfstate[IdentifierAttr(kind)] = prior[IdentifierAttr(kind)]

\* the Read runs on a state that holds nothing but an imported identifier
ReadAfterImport ==
    /\ op = "Read"
    /\ \E id \in ImportIDs : prior = ResourceImportState(kind, id).state
\* the answer to the Read carries the object the imported identifier names
ImportedObjectExists ==
    /\ calls = 1 /\ resp \notin {CallError, NotFound, OtherResponse}
    /\ IF ListRead(kind)
       THEN \E i \in 1..Len(resp.items) :
               IF kind = "environment" THEN resp.items[i].ID = ValueString(prior.ID)
               ELSE SameID(resp.items[i].ID, ValueString(prior.ID))
       ELSE AboutAddressed

\* the response reports something to fill attribute f with: not null, not an
\* empty header map
HasValue(f, v) == v \notin {NotReported, Null} /\ (f = "Headers" => v.v # {})

SelectorField(k) ==
    CASE k = "discovery_provider" -> "ProviderType"
      [] k = "model_provider" -> "Type"
      [] k = "oauth_service" -> "Name"

\* C21: discovery_provider provider_type, model_provider type and
\* oauth_service name force replacement, so Update is never invoked with a
\* planned value for any of them that differs from the prior-state value.
C21_SelectorsForceReplacement ==
    (op = "Update" /\ kind \in {"discovery_provider", "model_provider", "oauth_service"})
        => plan[SelectorField(kind)] = prior[SelectorField(kind)]

\* the optional create-request fields of a resource, by the kind of value
OptionalCreateFields(k) ==
    CASE k = "mcp_endpoint" -> [Description |-> "string", OAuthServiceID |-> "uuid",
                                AllowedTools |-> "list", DeniedTools |-> "list"]
      [] k = "oauth_service" -> [Description |-> "string", UserinfoURL |-> "url",
                                 IconURL |-> "url", HomepageURL |-> "url"]
      [] k = "model" -> [Description |-> "string"]
\* the planned value as the request types it: the text, the UUID or URL the
\* text spells, the list's elements
PlannedValue(type, v) ==
    CASE type = "string" -> ValueString(v)
      [] type = "uuid" -> UUIDParse(ValueString(v)).id
      [] type = "url" -> URLParse(ValueString(v)).url
      [] type = "list" -> ElementsAsList(v)

\* C22: in Create, an optional field that is null in the plan is omitted from
\* the create request (mcp_endpoint description, oauth_service_id,
\* allowed_tools, denied_tools; oauth_service description, userinfo_url,
\* icon_url, homepage_url; model description), and an optional field that is
\* set is sent with exactly the planned value.
C22_CreateOptionalFields ==
    (op = "Create" /\ calls = 1 /\ kind \in {"mcp_endpoint", "oauth_service", "model"}) =>
        \A f \in DOMAIN OptionalCreateFields(kind) :
            IF IsNull(plan[f]) THEN ~req[f].Set
            ELSE /\ req[f].Set /\ ~req[f].Null
                 /\ req[f].Value = PlannedValue(OptionalCreateFields(kind)[f], plan[f])

\* C23: the config attribute of devgraph_discovery_provider in persisted
\* state is never taken from a server response: after a successful Create or
\* Update it equals the planned config string, and after a successful Read
\* it equals the prior state's config string.
C23_ConfigNeverFromResponse ==
    (kind = "discovery_provider" /\ wrote = "set") =>
        /\ op \in {"Create", "Update"} => tfstate.Config = plan.Config
        /\ op = "Read" => tfstate.Config = prior.Config

\* a Read answered with a masked configuration keeps the stored text
C23_Witness ==
    /\ kind = "discovery_provider" /\ op = "Read" /\ wrote = "set"
    /\ resp.Config = {<<"token", "\"***\"">>}
    /\ tfstate.Config = StringValue("{\"token\":\"t\"}")

\* C24: the name attribute of devgraph_oauth_service in persisted state is
\* never overwritten from an API response: after Create and Update it equals
\* the planned name, and after Read it equals the prior state's name.
C24_OAuthNameKept ==
    (kind = "oauth_service" /\ wrote = "set") =>
        /\ op \in {"Create", "Update"} => tfstate.Name = plan.Name
        /\ op = "Read" => tfstate.Name = prior.Name

\* a Create answered with a name the server normalised keeps the planned one
C24_Witness ==
    /\ kind = "oauth_service" /\ op = "Create" /\ wrote = "set"
    /\ resp.Name = "GitHub-normalised" /\ tfstate.Name = StringValue("github")

C26_CreateWritesKnownID ==
    (op = "Create" /\ diags = <<>>) =>
        /\ wrote = "set"
        /\ ~IsUnknown(tfstate.ID) /\ ~IsNull(tfstate.ID)

\* the three ways a Read may end
ReadRewrote == wrote = "set" /\ diags = <<>> /\ tfstate # NoState
ReadRemoved == wrote = "removed" /\ diags = <<>> /\ tfstate = NoState
ReadFailed == diags # <<>> /\ wrote = "none" /\ tfstate = prior

\* C27: every Read of every resource ends in exactly one of three outcomes:
\* state rewritten with no error, resource removed from state with no error,
\* or an error diagnostic with the state neither rewritten nor removed.
C27_ReadOutcomes ==
    op = "Read" =>
        /\ ReadRewrote \/ ReadRemoved \/ ReadFailed
        /\ ~(ReadRewrote /\ ReadRemoved) /\ ~(ReadRewrote /\ ReadFailed)
        /\ ~(ReadRemoved /\ ReadFailed)

\* a discovery provider's Read answered with a response of another type
\* ends with an error and the state as it was
C27_Witness ==
    /\ kind = "discovery_provider" /\ op = "Read" /\ resp = OtherResponse
    /\ ReadFailed /\ calls = 1

\* the config texts that are JSON objects, and their top-level keys
JSONObjectKeys(s) ==
    CASE s \in {"{\"token\":\"t\"}", "{\"token\":\"t2\"}"} -> {"token"}
      [] s = "{}" -> {}
IsJSONObject(s) == s \in {"{\"token\":\"t\"}", "{\"token\":\"t2\"}", "{}"}
\* the config entries a discovery provider request carries
SentConfig == IF op = "Create" THEN req.Config ELSE req.Config.Value

\* C28: devgraph_discovery_provider Create, and Update when config changed,
\* reject every config string that is not a JSON object (malformed text,
\* JSON array, string, number, boolean or null) with the 'Invalid Config
\* JSON' error before any remote call; only a JSON object reaches the API,
\* with one request entry per top-level key.
C28_ConfigMustBeObject ==
    (/\ kind = "discovery_provider"
     /\ op = "Create" \/ (op = "Update" /\ plan.Config # prior.Config)) =>
        IF ~IsJSONObject(ValueString(plan.Config))
        THEN calls = 0 /\ diags = <<"Invalid Config JSON">> /\ wrote = "none"
        ELSE /\ calls = 1
             /\ {e[1] : e \in SentConfig} = JSONObjectKeys(ValueString(plan.Config))
             /\ Cardinality(SentConfig) = Cardinality(JSONObjectKeys(ValueString(plan.Config)))

\* the resources whose Read is addressed by a stored UUID
AddressedByID == {"mcp_endpoint", "model_provider", "oauth_service", "discovery_provider",
                  "chat_suggestion", "environment"}

\* C29: a Read whose stored id is not a valid UUID records an error, makes no
\* remote call and keeps the state, for the resources addressed by id
\* (mcp_endpoint, model_provider, oauth_service, discovery_provider,
\* chat_suggestion, environment); it never silently removes the resource
\* from state.
C29_ReadWithInvalidID ==
    (op = "Read" /\ kind \in AddressedByID /\ UUIDParse(ValueString(prior.ID)).err) =>
        /\ diags # <<>> /\ calls = 0
        /\ wrote = "none" /\ tfstate = prior

\* C30: a resource's Configure with nil provider data records no error and
\* leaves the client handle unset; with provider data of any type other than
\* the API client it records an 'Unexpected Resource Configure Type' error
\* and leaves the handle unchanged; only provider data of the client type
\* sets the handle.
C30_ResourceConfigure ==
    [][pc = "provider_configured" =>
          IF provider.ResourceData = NoClient
          THEN diags' = <<>> /\ client' = NoClient
          ELSE IF provider.ResourceData.T # "Client"
          THEN diags' = <<"Unexpected Resource Configure Type">> /\ client' = client
          ELSE diags' = <<>> /\ client' = provider.ResourceData]_vars

\* Configure was handed provider data of another type: the error is
\* recorded and the handle is still unset
C30_Witness ==
    /\ provider.ResourceData = WrongTypeData /\ pc = "failed"
    /\ diags = <<"Unexpected Resource Configure Type">> /\ client = NoClient

====
